---------------------------- MODULE Spec2Model ----------------------------
(***************************************************************************)
(* Model of the Sniftr recommendation core: the offline builder            *)
(* (intelligence/scripts/train_recommeder.py), the artifact directory, the  *)
(* server start-up (main.py lifespan) and the online engine                 *)
(* (intelligence/recommender.py, FragranceRecommender).                     *)
(*                                                                         *)
(* Numbers.  Similarities, popularity and scores are Python floats.  They   *)
(* are modelled in fixed point: a similarity or a popularity p is the       *)
(* integer p * Scale.  eps = 1e-9 (recommender.py:116) is below that        *)
(* resolution: it only decides the value of 0 / (0 + eps), which is 0.      *)
(* Row indices are 0-based as in the code; the JSON keys "0", "1", ... of   *)
(* bottle_id_map.json are modelled by the integers they spell.              *)
(***************************************************************************)
EXTENDS Integers, Sequences, FiniteSets, TLC

VARIABLES
    disk,      \* the artifact directory: file name -> [status, run, data]
    catalog,   \* the CSV the builder reads (df)
    build,     \* the builder process: [pc, run]
    srv,       \* the server process: [pc, loads, served]
    engine,    \* the FragranceRecommender object and app.state.recommender
    reqs,      \* request slot -> the request being handled in it
    sortTie,   \* how this build's argsort orders rows of equal similarity
    store      \* the database: bottles, collections and swipes tables

vars == <<disk, catalog, build, srv, engine, reqs, sortTie, store>>

-----------------------------------------------------------------------------
(* Bounds of the model *)

\* small corpora have 0..MaxRows rows
MaxRows == 2
\* the builder is run at most MaxRuns times
MaxRuns == 2

\* fixed-point resolution of similarities and popularity
Scale == 10 ^ 3

(* Program constants *)

\* pool_size = 50
PoolSize == 50
\* alpha: float = 0.85, in percent
Alpha == 85
Percent == 10 ^ 2
\* self.popularity_map.get(b_id, 0.4)
DefaultPop == (4 * Scale) \div 10
\* k: int = Query(20, ge=1, le=100)
MaxK == 100
\* a NaN float (0/0 in the builder's normalisation)
NaN == 0 - 1

-----------------------------------------------------------------------------
(* Plain helpers *)

Range(f) == {f[x] : x \in DOMAIN f}

\* f itself, as a table: TLC evaluates a function expression anew at each
\* application unless it is tabulated once
Tab(f) == f @@ <<>>

Min2(a, b) == IF a <= b THEN a ELSE b

RECURSIVE SumSet(_, _)
SumSet(f, S) ==
    IF S = {} THEN 0
    ELSE LET x == CHOOSE y \in S : TRUE IN f[x] + SumSet(f, S \ {x})

SeqMin(s) == CHOOSE x \in Range(s) : \A y \in Range(s) : x <= y
SeqMax(s) == CHOOSE x \in Range(s) : \A y \in Range(s) : x >= y

\* s[a..b] with 1-based inclusive bounds, empty when a > b
Slice(s, a, b) == Tab([i \in 1..(IF b >= a THEN b - a + 1 ELSE 0) |-> s[a + i - 1]])

Reverse(s) == Tab([i \in 1..Len(s) |-> s[Len(s) + 1 - i]])

\* (mutant: the slice [:k] is missing)
Take_all(s, n) == s

\* the first n elements, Python's s[:n] for n >= 0
Take(s, n) == Slice(s, 1, Min2(n, Len(s)))

\* the last n elements, Python's s[-n:] for n >= 1
LastN(s, n) == Slice(s, IF Len(s) > n THEN Len(s) - n + 1 ELSE 1, Len(s))

\* an array or a dict with keys 0..n-1
ZeroBased(n) == 0..(n - 1)
NRows(m) == Cardinality(DOMAIN m)
EmptyMap == [x \in {} |-> 0]

-----------------------------------------------------------------------------
(* Text: a string is a sequence of one-character strings *)

Lower(c) ==
    CASE c = "A" -> "a" [] c = "B" -> "b" [] c = "N" -> "n" [] c = "U" -> "u"
      [] OTHER -> c
IsAlnum(c) ==
    c \in {"a", "b", "c", "d", "e", "k", "l", "n", "o", "u", "w", "A", "B", "N", "U"}
IsSpace(c) == c = " "

RECURSIVE LStrip(_)
LStrip(s) == IF s # <<>> /\ IsSpace(Head(s)) THEN LStrip(Tail(s)) ELSE s
Strip(s) == Reverse(LStrip(Reverse(LStrip(s))))

\* a request's q: a str, or a value of another type
Str(chars) == [isStr |-> TRUE, chars |-> chars]
NonStr == [isStr |-> FALSE, chars |-> <<>>]

\* FragranceRecommender._preprocess_query:
\*   re.sub(r'[^a-zA-Z0-9\s]', '', text).lower().strip(), "" for a non-str
preprocess_query(text) ==
    IF ~text.isStr THEN <<>>
    ELSE LET kept == SelectSeq(text.chars, LAMBDA c : IsAlnum(c) \/ IsSpace(c))
         IN Strip([i \in 1..Len(kept) |-> Lower(kept[i])])

\* the words of a cleaned text, split at white space
RECURSIVE Words(_, _)
Words(s, cur) ==
    IF s = <<>> THEN (IF cur = <<>> THEN <<>> ELSE <<cur>>)
    ELSE IF IsSpace(Head(s))
         THEN (IF cur = <<>> THEN <<>> ELSE <<cur>>) \o Words(Tail(s), <<>>)
         ELSE Words(Tail(s), Append(cur, Head(s)))

-----------------------------------------------------------------------------
(* The vector space *)

\* the fitted vocabulary (the vectorizer artifact)
Vocab == {<<"a", "b">>, <<"c", "d">>}

\* a row of the matrix: term -> weight
RowTypes == [Vocab -> {0, 1}]
ZeroRow == [t \in Vocab |-> 0]

\* vectorizer.transform([clean_text]): out-of-vocabulary words weigh nothing
Transform(vocabulary, clean) ==
    LET ws == Words(clean, <<>>)
    IN [t \in Vocab |->
          IF t \in vocabulary
          THEN Cardinality({i \in 1..Len(ws) : ws[i] = t}) ELSE 0]

Dot(a, b) == SumSet([t \in Vocab |-> a[t] * b[t]], Vocab)

RECURSIVE IsqrtIn(_, _, _)
IsqrtIn(n, lo, hi) ==
    IF lo >= hi THEN lo
    ELSE LET mid == (lo + hi + 1) \div 2
         IN IF mid * mid <= n THEN IsqrtIn(n, mid, hi) ELSE IsqrtIn(n, lo, mid - 1)

\* one entry of sklearn's cosine_similarity, in fixed point; a zero vector
\* has similarity 0 to everything
Cosine(a, b) ==
    LET na == Dot(a, a)
        nb == Dot(b, b)
        d  == Dot(a, b)
    IN IF na = 0 \/ nb = 0 THEN 0
       ELSE IsqrtIn((Scale * Scale * d * d) \div (na * nb), 0, Scale)

\* cosine_similarity(vec, self.tfidf_matrix).flatten()
Similarities(vec, matrix) == Tab([i \in DOMAIN matrix |-> Cosine(vec, matrix[i])])

\* Does row i sort before row j in similarities.argsort()?  Rows of equal
\* similarity come in the order this build's (unstable) sort leaves them.
ArgsortBefore(sims, tie, i, j) ==
    \/ sims[i] < sims[j]
    \/ /\ sims[i] = sims[j]
       /\ IF tie = "index_asc" THEN i < j ELSE i > j

\* similarities.argsort(): the row indices, lowest similarity first
Argsort(sims, tie) ==
    LET n == NRows(sims)
        pos == Tab([i \in DOMAIN sims |->
                  Cardinality({j \in DOMAIN sims : ArgsortBefore(sims, tie, j, i)})])
    IN Tab([p \in 1..n |-> CHOOSE i \in DOMAIN sims : pos[i] = p - 1])

\* similarities.argsort()[-n:][::-1]
TopIndices(sims, tie, n) == Reverse(LastN(Argsort(sims, tie), n))


-----------------------------------------------------------------------------
(* The engine: FragranceRecommender *)

Files == {"vectorizer.joblib", "tfidf_matrix.npz", "bottle_id_map.json",
          "popularity_map.json"}

\* FragranceRecommender.__init__: the five fields are None; `set` holds the
\* names of the fields assigned since, `published` is app.state.recommender
NewEngine ==
    [vectorizer |-> {}, tfidf_matrix |-> EmptyMap, id_map |-> EmptyMap,
     reverse_map |-> EmptyMap, popularity_map |-> EmptyMap,
     set |-> {}, published |-> FALSE]

\* what a call ends with: a returned list or a raised exception
\* (scans: how many times cosine_similarity was called on the way)
Return(list, scans) == [kind |-> "return", list |-> list, exc |-> "-", scans |-> scans]
Raise(exc, scans) == [kind |-> "raise", list |-> <<>>, exc |-> exc, scans |-> scans]

\* {int(v): int(k) for k, v in self.id_map.items()}: a later row replaces an
\* earlier row of the same id
ReverseMap(id_map) ==
    [b \in Range(id_map) |->
        CHOOSE r \in DOMAIN id_map :
            id_map[r] = b /\ \A q \in DOMAIN id_map : id_map[q] = b => q <= r]

\* (mutant: a miss falls back to row 0, as .get(bottle_id, 0) would)
ReverseGet_default_row(reverse_map, bottle_id) ==
    IF bottle_id \in DOMAIN reverse_map THEN reverse_map[bottle_id] ELSE 0

\* self.reverse_map.get(bottle_id); NoRow is the None of a miss
NoRow == 0 - 1
ReverseGet(reverse_map, bottle_id) ==
    IF bottle_id \in DOMAIN reverse_map THEN reverse_map[bottle_id] ELSE NoRow

\* (mutant: the `if b_id == bottle_id: continue` is missing)
SeedCandidateIds_no_skip(id_map, top, bottle_id) ==
    Tab([i \in 1..Len(top) |-> id_map[top[i]]])

\* candidate_ids of recommend_by_bottle_id: the ids of the top rows, in order,
\* without the seed's id
SeedCandidateIds(id_map, top, bottle_id) ==
    LET ids == Tab([i \in 1..Len(top) |-> id_map[top[i]]])
    IN SelectSeq(ids, LAMBDA b : b # bottle_id)

\* candidate_ids of recommend_by_query: the ids of the top rows, in order
QueryCandidateIds(id_map, top) == Tab([i \in 1..Len(top) |-> id_map[top[i]]])

\* sim_scores: the dict the loop fills; the last row of an id wins
SimScores(id_map, top, sims, ids) ==
    Tab([b \in Range(ids) |->
        LET at == {i \in 1..Len(top) : id_map[top[i]] = b}
            last == CHOOSE i \in at : \A j \in at : j <= i
        IN sims[top[last]]])

\* (mutant: a missing id counts as popularity 0)
PopularityGet_zero(popularity_map, b_id) ==
    IF b_id \in DOMAIN popularity_map THEN popularity_map[b_id] ELSE 0

\* self.popularity_map.get(b_id, 0.4)
PopularityGet(popularity_map, b_id) ==
    IF b_id \in DOMAIN popularity_map THEN popularity_map[b_id] ELSE DefaultPop

\* (mutant: the similarity is used as it is, not normalised within the pool)
NormSim_raw(raw_sim, min_sim, diff) == raw_sim

\* (mutant: the normalisation measures the distance from the pool's maximum)
NormSim_from_max(raw_sim, min_sim, diff) ==
    IF diff = 0 THEN 0 ELSE ((min_sim + diff - raw_sim) * Scale) \div diff

\* norm_sim = (raw_sim - min_sim) / (diff + eps)
NormSim(raw_sim, min_sim, diff) ==
    IF diff = 0 THEN 0 ELSE ((raw_sim - min_sim) * Scale) \div diff

\* a float product x / d, rounded to the nearest value the format holds
Round(x, d) == (2 * x + d) \div (2 * d)

\* final_score = (norm_sim * alpha) + (pop * (1 - alpha)): each product is
\* rounded to the resolution of the format; NaN when the popularity is NaN
FinalScore(norm_sim, pop) ==
    IF pop = NaN THEN NaN
    ELSE Round(norm_sim * Alpha, Percent) + Round(pop * (Percent - Alpha), Percent)

\* (mutant: sorted ascending and then reversed, which reverses ties)
SortedBefore_reversed(scores, i, j) ==
    scores[i] > scores[j] \/ (scores[i] = scores[j] /\ i > j)

\* Does entry i come before entry j after
\* scored_candidates.sort(key=lambda x: x[1], reverse=True)?  The sort is
\* stable; a NaN key is neither smaller nor larger than any other.
SortedBefore(scores, i, j) ==
    LET gt == scores[i] # NaN /\ scores[j] # NaN /\ scores[i] > scores[j]
        lt == scores[i] # NaN /\ scores[j] # NaN /\ scores[i] < scores[j]
    IN gt \/ (~lt /\ i < j)

\* (mutant: the scored candidates are kept in a dict keyed by id, so an id
\* that is a candidate twice comes back once)
rerank_candidates_by_dict(popularity_map, candidate_ids, sim_scores) ==
    LET first == SelectSeq([i \in 1..Len(candidate_ids) |->
                               IF \E j \in 1..(i - 1) : candidate_ids[j] = candidate_ids[i]
                               THEN NoRow ELSE candidate_ids[i]],
                           LAMBDA b : b # NoRow)
    IN first

\* FragranceRecommender.rerank_candidates with the default alpha
rerank_candidates(popularity_map, candidate_ids, sim_scores) ==
    IF candidate_ids = <<>> THEN <<>>
    ELSE LET n == Len(candidate_ids)
             raw_sims == Tab([i \in 1..n |-> sim_scores[candidate_ids[i]]])
             min_sim == SeqMin(raw_sims)
             max_sim == SeqMax(raw_sims)
             diff == max_sim - min_sim
             scores == Tab([i \in 1..n |->
                 FinalScore(NormSim(raw_sims[i], min_sim, diff),
                            PopularityGet(popularity_map, candidate_ids[i]))])
             pos == Tab([i \in 1..n |->
                 Cardinality({j \in 1..n : j # i /\ SortedBefore(scores, j, i)})])
         IN Tab([p \in 1..n |-> candidate_ids[CHOOSE i \in 1..n : pos[i] = p - 1]])

\* FragranceRecommender.recommend_by_bottle_id
recommend_by_bottle_id(e, tie, bottle_id, k) ==
    LET target_row_idx == ReverseGet(e.reverse_map, bottle_id)
    IN IF target_row_idx = NoRow THEN Return(<<>>, 0)
       ELSE IF target_row_idx \notin DOMAIN e.tfidf_matrix THEN Raise("IndexError", 0)
       ELSE LET similarities ==
                    Similarities(e.tfidf_matrix[target_row_idx], e.tfidf_matrix)
                top_indices == TopIndices(similarities, tie, PoolSize + 1)
            IN IF \E i \in 1..Len(top_indices) : top_indices[i] \notin DOMAIN e.id_map
               THEN Raise("KeyError", 1)
               ELSE LET candidate_ids ==
                            SeedCandidateIds(e.id_map, top_indices, bottle_id)
                        sim_scores == SimScores(e.id_map, top_indices,
                                                similarities, candidate_ids)
                    IN Return(Take(rerank_candidates(e.popularity_map,
                                       candidate_ids, sim_scores), k), 1)

\* FragranceRecommender.recommend_by_query; sklearn's cosine_similarity
\* refuses a matrix of no rows (check_array: minimum of 1 sample) with
\* a ValueError
recommend_by_query(e, tie, query, k) ==
    LET clean_text == preprocess_query(query)
        query_vec == Transform(e.vectorizer, clean_text)
    IN IF NRows(e.tfidf_matrix) = 0 THEN Raise("ValueError", 1)
       ELSE LET similarities == Similarities(query_vec, e.tfidf_matrix)
                top_indices == TopIndices(similarities, tie, k)
            IN IF \E i \in 1..Len(top_indices) : top_indices[i] \notin DOMAIN e.id_map
               THEN Raise("KeyError", 1)
               ELSE LET candidate_ids == QueryCandidateIds(e.id_map, top_indices)
                        sim_scores == SimScores(e.id_map, top_indices,
                                                similarities, candidate_ids)
                    IN Return(Take(rerank_candidates(e.popularity_map,
                                       candidate_ids, sim_scores), k), 1)


-----------------------------------------------------------------------------
(* The artifact directory *)

OkFile(run, data) == [status |-> "ok", run |-> run, data |-> data]
\* a file that is not there, or that does not parse
BadFile(status, data) == [status |-> status, run |-> 0, data |-> data]

\* catalog ids of the small corpora
Ids == 1..MaxRows

\* the rows of a corpus of PoolSize + 2 items
BigRows == PoolSize + 2
BigIds == 1..BigRows

SmallMatrices == UNION {[ZeroBased(n) -> RowTypes] : n \in 0..MaxRows}
\* large corpora: row 0 of one kind, every other row of another (or the same)
BigMatrices ==
    {[i \in ZeroBased(BigRows) |-> IF i = 0 THEN first ELSE rest] :
        first \in RowTypes, rest \in RowTypes}

\* row -> id maps of the small corpora: any length, ids may repeat
SmallIdMaps == UNION {[ZeroBased(m) -> Ids] : m \in 0..MaxRows}
BigIdMap == [i \in ZeroBased(BigRows) |-> i + 1]

\* popularity maps: no entry at all, or id 1 unpopular and the rest popular
PopMaps(ids) == {EmptyMap, [b \in ids |-> IF b = 1 THEN 0 ELSE Scale]}

ArtifactDir(v, m, i, p) ==
    [vectorizer |-> v, tfidf_matrix |-> m, bottle_id_map |-> i, popularity_map |-> p]

\* directories whose four files all parse
GoodDirs ==
    {ArtifactDir(OkFile(0, Vocab), OkFile(0, m), OkFile(0, i), OkFile(0, p)) :
        m \in SmallMatrices, i \in SmallIdMaps, p \in PopMaps(Ids)}
    \cup
    {ArtifactDir(OkFile(0, Vocab), OkFile(0, m), OkFile(0, BigIdMap),
                 OkFile(0, [b \in BigIds |-> IF b = 1 THEN 0 ELSE Scale])) :
        m \in BigMatrices}

\* directories with a file missing or corrupt
BadDirs ==
    LET St == {"ok", "missing", "corrupt"}
        F(st, data) == IF st = "ok" THEN OkFile(0, data) ELSE BadFile(st, data)
    IN {ArtifactDir(F(a, {}), F(b, EmptyMap), F(c, EmptyMap), F(d, EmptyMap)) :
            a \in St, b \in St, c \in St, d \in St}

-----------------------------------------------------------------------------
(* The offline builder: train_recommeder.py *)

\* ACCORD_WEIGHT = 3
ACCORD_WEIGHT == 3
\* for i in range(1, 6): the accord slots mainaccord1..mainaccord5
AccordSlots == 1..5

\* clean_token: "" for a null or non-str cell, else
\*   re.sub(r'[^a-zA-Z0-9\s]', '', text).lower().strip()
clean_token(cell) ==
    IF ~cell.isStr THEN <<>>
    ELSE LET kept == SelectSeq(cell.chars, LAMBDA c : IsAlnum(c) \/ IsSpace(c))
         IN Strip([i \in 1..Len(kept) |-> Lower(kept[i])])

\* str(cell): a null cell (NaN) prints as "nan"
PyStr(cell) == IF cell.isStr THEN cell.chars ELSE <<"n", "a", "n">>

\* s.split(sep): the pieces between separators, empty ones included
RECURSIVE Split(_, _, _)
Split(s, sep, cur) ==
    IF s = <<>> THEN <<cur>>
    ELSE IF Head(s) = sep THEN <<cur>> \o Split(Tail(s), sep, <<>>)
         ELSE Split(Tail(s), sep, Append(cur, Head(s)))

\* the values build_soup drops: ['null', 'nan', 'none']
SoupPlaceholders ==
    {<<"n", "u", "l", "l">>, <<"n", "a", "n">>, <<"n", "o", "n", "e">>}

\* if val and val not in ['null', 'nan', 'none']
SoupKeeps(val) == val # <<>> /\ val \notin SoupPlaceholders

\* [val] * n
Repeat(val, n) == [i \in 1..n |-> val]

RECURSIVE Concat(_)
Concat(lists) == IF lists = <<>> THEN <<>> ELSE Head(lists) \o Concat(Tail(lists))

\* (mutant: each accord is emitted once)
AccordTokens_unweighted(row) ==
    Concat([i \in AccordSlots |->
        LET val == clean_token(row.mainaccord[i])
        IN IF SoupKeeps(val) THEN <<val>> ELSE <<>>])

\* the first loop of build_soup: each kept accord, ACCORD_WEIGHT times
AccordTokens(row) ==
    Concat([i \in AccordSlots |->
        LET val == clean_token(row.mainaccord[i])
        IN IF SoupKeeps(val) THEN Repeat(val, ACCORD_WEIGHT) ELSE <<>>])

\* one note column: the cleaned pieces of str(cell).split(',') that are kept
NoteList(cell) ==
    LET pieces == Split(PyStr(cell), ",", <<>>)
        note_list == [i \in 1..Len(pieces) |-> clean_token(Str(pieces[i]))]
    IN SelectSeq(note_list, SoupKeeps)

\* the second loop of build_soup: for col in ['Top', 'Middle', 'Base']
NoteTokens(row) == NoteList(row.Top) \o NoteList(row.Middle) \o NoteList(row.Base)

\* " ".join(tokens)
RECURSIVE Join(_)
Join(tokens) ==
    IF tokens = <<>> THEN <<>>
    ELSE IF Len(tokens) = 1 THEN Head(tokens)
    ELSE Head(tokens) \o <<" ">> \o Join(Tail(tokens))

\* build_soup(row)
build_soup(row) == Join(AccordTokens(row) \o NoteTokens(row))

\* m = 50
VoteThreshold == 50

\* one CSV row: its original_index, the terms of its metadata soup, its
\* 'Rating Count' and its 'Rating Value' (in fixed point)
CsvRow(id, soup, v, R) == [original_index |-> id, soup |-> soup, v |-> v, R |-> R]

\* the CSV: its rows, and whether it has the rating columns
Catalog(rows, ratings) == [rows |-> rows, ratings |-> ratings]

Soups == {[t \in Vocab |-> 1], [t \in Vocab |-> IF t = <<"a", "b">> THEN 1 ELSE 0]}

\* the CSV files of the model: no row, or MaxRows rows of one soup whose ids
\* are distinct or all the same and whose ratings are all equal or not
Catalogs ==
    {Catalog(<<>>, r) : r \in BOOLEAN}
    \cup
    {Catalog([i \in 1..MaxRows |->
                CsvRow(IF distinct THEN i ELSE 1, soup,
                       IF equal THEN 0 ELSE VoteThreshold,
                       IF equal THEN 0 ELSE IF i = 1 THEN 4 * Scale ELSE 2 * Scale)], r) :
        distinct \in BOOLEAN, soup \in Soups, equal \in BOOLEAN, r \in BOOLEAN}

\* TfidfVectorizer(min_df=2).fit: the vocabulary keeps the terms found in at
\* least two soups
FitVocabulary(rows) ==
    {t \in Vocab : Cardinality({i \in 1..Len(rows) : rows[i].soup[t] > 0}) >= 2}

\* fit_transform: one row per CSV row, over the kept terms (term presence
\* stands for the tf-idf weight)
FitMatrix(rows) ==
    LET vocabulary == FitVocabulary(rows)
    IN Tab([i \in ZeroBased(Len(rows)) |->
              [t \in Vocab |-> IF t \in vocabulary THEN rows[i + 1].soup[t] ELSE 0]])

\* id_map = {str(i): int(row_id) for i, row_id in enumerate(df['original_index'])}
BuildIdMap(rows) == Tab([i \in ZeroBased(Len(rows)) |-> rows[i + 1].original_index])

\* C = R[v > 0].mean(): NaN when no item has a rating count
GlobalMean(rows) ==
    LET rated == {i \in 1..Len(rows) : rows[i].v > 0}
    IN IF rated = {} THEN NaN
       ELSE SumSet([i \in rated |-> rows[i].R], rated) \div Cardinality(rated)

\* (mutant: the two shrinkage weights are exchanged)
WeightedRating_swapped(v, R, C) ==
    IF C = NaN THEN NaN
    ELSE (VoteThreshold * R + v * C) \div (v + VoteThreshold)

\* weighted_ratings = (v / (v + m) * R) + (m / (v + m) * C)
WeightedRating(v, R, C) ==
    IF C = NaN THEN NaN
    ELSE (v * R + VoteThreshold * C) \div (v + VoteThreshold)

\* (mutant: the scores are scaled by the maximum only)
Normalize_by_max(wr, min_val, max_val) ==
    IF wr = NaN \/ max_val = 0 THEN NaN ELSE (wr * Scale) \div max_val

\* normalized_scores = (weighted_ratings - min_val) / (max_val - min_val):
\* 0 / 0 is NaN
Normalize(wr, min_val, max_val) ==
    IF wr = NaN \/ max_val = min_val THEN NaN
    ELSE ((wr - min_val) * Scale) \div (max_val - min_val)

\* compute_popularity_scores, on a CSV that has the rating columns
compute_popularity_scores(rows) ==
    LET n == Len(rows)
        C == GlobalMean(rows)
        weighted_ratings == [i \in 1..n |-> WeightedRating(rows[i].v, rows[i].R, C)]
        min_val == SeqMin(weighted_ratings)
        max_val == SeqMax(weighted_ratings)
        normalized_scores ==
            [i \in 1..n |-> Normalize(weighted_ratings[i], min_val, max_val)]
        ids == {rows[i].original_index : i \in 1..n}
        \* a dict comprehension keeps the last value of a repeated key
        last(b) == CHOOSE i \in 1..n :
                      /\ rows[i].original_index = b
                      /\ \A j \in 1..n : rows[j].original_index = b => j <= i
    IN Tab([b \in ids |-> normalized_scores[last(b)]])

Building(pc) == build.pc = pc

\* a run starts: pd.read_csv and df.apply(build_soup)
StartBuild ==
    /\ build.pc \in {"off", "done", "failed"}
    /\ build.run < MaxRuns
    /\ catalog' \in Catalogs
    /\ build' = [pc |-> "fit", run |-> build.run + 1]
    /\ UNCHANGED <<disk, srv, engine, reqs, sortTie, store>>

\* df['metadata_soup'] = df.apply(build_soup, axis=1), for the rows as read
ApplyBuildSoup ==
    /\ Building("soup")
    /\ catalog' = [catalog EXCEPT !.rows =
          Tab([i \in 1..Len(catalog.rows) |->
                 [catalog.rows[i] EXCEPT !.metadata_soup = build_soup(catalog.rows[i])]])]
    /\ build' = [build EXCEPT !.pc = "fit"]
    /\ UNCHANGED <<disk, srv, engine, reqs, sortTie, store>>

\* tfidf.fit_transform: raises ValueError when no term is kept
Fit ==
    /\ Building("fit")
    /\ build' = [build EXCEPT !.pc = IF FitVocabulary(catalog.rows) = {}
                                     THEN "failed" ELSE "write_vectorizer"]
    /\ UNCHANGED <<disk, catalog, srv, engine, reqs, sortTie, store>>

\* one artifact file is written in place
WriteFile(pc, next, file, data) ==
    /\ Building(pc)
    /\ disk' = [disk EXCEPT ![file] = OkFile(build.run, data)]
    /\ build' = [build EXCEPT !.pc = next]
    /\ UNCHANGED <<catalog, srv, engine, reqs, sortTie, store>>

\* joblib.dump(tfidf, .../vectorizer.joblib)
WriteVectorizer ==
    WriteFile("write_vectorizer", "write_matrix", "vectorizer",
              FitVocabulary(catalog.rows))

\* sparse.save_npz(.../tfidf_matrix.npz, matrix)
WriteMatrix ==
    WriteFile("write_matrix", "write_id_map", "tfidf_matrix", FitMatrix(catalog.rows))

\* json.dump(id_map, f)
WriteIdMap ==
    WriteFile("write_id_map", "popularity", "bottle_id_map", BuildIdMap(catalog.rows))

\* pop_map = compute_popularity_scores(df): df['Rating Count'] raises KeyError
\* on a CSV without that column
ComputePopularity ==
    /\ Building("popularity")
    /\ build' = [build EXCEPT !.pc = IF catalog.ratings
                                     THEN "write_popularity" ELSE "failed"]
    /\ UNCHANGED <<disk, catalog, srv, engine, reqs, sortTie, store>>

\* save_popularity_artifact(ARTIFACT_DIR, pop_map)
WritePopularity ==
    WriteFile("write_popularity", "done", "popularity_map",
              compute_popularity_scores(catalog.rows))

-----------------------------------------------------------------------------
(* The server: main.py lifespan *)

\* pc: where lifespan is; loads: calls of load_artifacts so far
Srv(pc, loads) == [pc |-> pc, loads |-> loads]

\* recommender = FragranceRecommender(); recommender.load_artifacts(...) starts
Boot ==
    /\ srv.pc = "boot"
    /\ engine' = NewEngine
    /\ srv' = Srv("load_vectorizer", srv.loads + 1)
    /\ UNCHANGED <<disk, catalog, build, reqs, sortTie, store>>

\* (mutant: the read is wrapped in try/except and the failure swallowed)
LoadFile_swallow(pc, next, file, field) ==
    /\ srv.pc = pc
    /\ IF disk[file].status = "ok"
       THEN engine' = [engine EXCEPT ![field] = disk[file].data,
                                     !.set = @ \cup {field}]
       ELSE UNCHANGED engine
    /\ srv' = [srv EXCEPT !.pc = next]
    /\ UNCHANGED <<disk, catalog, build, reqs, sortTie, store>>

\* one file read of load_artifacts: a missing or corrupt file raises, the
\* exception leaves lifespan and the server never starts
LoadFile(pc, next, file, field) ==
    /\ srv.pc = pc
    /\ IF disk[file].status = "ok"
       THEN /\ engine' = [engine EXCEPT ![field] = disk[file].data,
                                        !.set = @ \cup {field}]
            /\ srv' = [srv EXCEPT !.pc = next]
       ELSE /\ srv' = [srv EXCEPT !.pc = "crashed"]
            /\ UNCHANGED engine
    /\ UNCHANGED <<disk, catalog, build, reqs, sortTie, store>>

LoadVectorizer == LoadFile("load_vectorizer", "load_matrix", "vectorizer", "vectorizer")
LoadMatrix == LoadFile("load_matrix", "load_id_map", "tfidf_matrix", "tfidf_matrix")
LoadIdMap == LoadFile("load_id_map", "load_popularity", "bottle_id_map", "id_map")
LoadPopularity ==
    LoadFile("load_popularity", "build_reverse", "popularity_map", "popularity_map")

\* self.reverse_map = {int(v): int(k) for k, v in self.id_map.items()};
\* load_artifacts returns
BuildReverseMap ==
    /\ srv.pc = "build_reverse"
    /\ engine' = [engine EXCEPT !.reverse_map = ReverseMap(engine.id_map),
                                !.set = @ \cup {"reverse_map"}]
    /\ srv' = [srv EXCEPT !.pc = "publish"]
    /\ UNCHANGED <<disk, catalog, build, reqs, sortTie, store>>

\* app.state.recommender = recommender; yield
Publish ==
    /\ srv.pc = "publish"
    /\ engine' = [engine EXCEPT !.published = TRUE]
    /\ srv' = [srv EXCEPT !.pc = "serving"]
    /\ UNCHANGED <<disk, catalog, build, reqs, sortTie, store>>

-----------------------------------------------------------------------------
(* Requests *)

\* what a request asks for
SeedInputs == 0..(MaxRows + 1) \cup {BigRows}
KInputs == {1, PoolSize, MaxK}
Texts == {NonStr, Str(<<>>), Str(<<"A", "b", "!">>),
          Str(<<" ", "a", "b", " ", "c", "d">>), Str(<<"!", "!">>)}

Idle ==
    [pc |-> "idle", kind |-> "-", seed |-> 0, text |-> NonStr, k |-> 0,
     row |-> NoRow, vec |-> ZeroRow, sims |-> EmptyMap, top |-> <<>>, cands |-> <<>>,
     scores |-> EmptyMap, out |-> Return(<<>>, 0)]

SeedRequest(pc, seed, k) == [Idle EXCEPT !.pc = pc, !.kind = "seed", !.seed = seed, !.k = k]
QueryRequest(pc, text, k) == [Idle EXCEPT !.pc = pc, !.kind = "query", !.text = text, !.k = k]

\* a request handler runs only while the server serves (after lifespan's yield)
Serving == srv.pc = "serving"

\* recommender.recommend_by_bottle_id(seed_bottle_id, k=k), as one step of the
\* event loop
ServeSeed(s) ==
    /\ Serving
    /\ reqs[s].pc = "idle"
    /\ \E seed \in SeedInputs, k \in KInputs :
         reqs' = [reqs EXCEPT ![s] =
                    [SeedRequest("done", seed, k) EXCEPT
                       !.out = recommend_by_bottle_id(engine, sortTie, seed, k)]]
    /\ UNCHANGED <<disk, catalog, build, srv, engine, sortTie, store>>

\* recommender.recommend_by_query(q, k=k), as one step of the event loop
ServeQuery(s) ==
    /\ Serving
    /\ reqs[s].pc = "idle"
    /\ \E text \in Texts, k \in KInputs :
         reqs' = [reqs EXCEPT ![s] =
                    [QueryRequest("done", text, k) EXCEPT
                       !.out = recommend_by_query(engine, sortTie, text, k)]]
    /\ UNCHANGED <<disk, catalog, build, srv, engine, sortTie, store>>

\* the response leaves; the slot is free for the next request
Respond(s) ==
    /\ reqs[s].pc = "done"
    /\ reqs' = [reqs EXCEPT ![s] = Idle]
    /\ UNCHANGED <<disk, catalog, build, srv, engine, sortTie, store>>

-----------------------------------------------------------------------------
(* Requests in flight together: each engine call advances line by line, and *)
(* the calls of different requests interleave                               *)

FewSeeds == 0..MaxRows
FewKs == {1, MaxK}
FewTexts == {Str(<<>>), Str(<<"A", "b", "!">>)}

\* a request arrives and its handler calls the engine
Receive(s) ==
    /\ Serving
    /\ reqs[s].pc = "idle"
    /\ \/ \E seed \in FewSeeds, k \in FewKs :
            reqs' = [reqs EXCEPT ![s] = SeedRequest("lookup", seed, k)]
       \/ \E text \in FewTexts, k \in FewKs :
            reqs' = [reqs EXCEPT ![s] = QueryRequest("vectorize", text, k)]
    /\ UNCHANGED <<disk, catalog, build, srv, engine, sortTie, store>>

\* recommend_by_bottle_id: target_row_idx = self.reverse_map.get(bottle_id);
\* if target_row_idx is None: return []
StepLookup(s) ==
    /\ reqs[s].pc = "lookup"
    /\ LET row == ReverseGet(engine.reverse_map, reqs[s].seed)
       IN reqs' = [reqs EXCEPT ![s] =
             IF row = NoRow
             THEN [@ EXCEPT !.pc = "done", !.out = Return(<<>>, 0)]
             ELSE [@ EXCEPT !.pc = "similarity", !.row = row]]
    /\ UNCHANGED <<disk, catalog, build, srv, engine, sortTie, store>>

\* recommend_by_query: clean_text, query_vec
StepVectorize(s) ==
    /\ reqs[s].pc = "vectorize"
    /\ reqs' = [reqs EXCEPT ![s] =
          [@ EXCEPT !.pc = "similarity",
                    !.vec = Transform(engine.vectorizer, preprocess_query(reqs[s].text))]]
    /\ UNCHANGED <<disk, catalog, build, srv, engine, sortTie, store>>

\* (mutant: rows of equal similarity are ordered anew at each call, as a
\* shuffle or a randomised sort would)
StepSimilarity_any_tie(s) ==
    /\ reqs[s].pc = "similarity"
    /\ reqs[s].kind = "seed" => reqs[s].row \in DOMAIN engine.tfidf_matrix
    /\ reqs[s].kind = "query" => NRows(engine.tfidf_matrix) > 0
    /\ \E tie \in {"index_asc", "index_desc"} :
         LET vec == IF reqs[s].kind = "seed"
                    THEN engine.tfidf_matrix[reqs[s].row] ELSE reqs[s].vec
             sims == Similarities(vec, engine.tfidf_matrix)
             n == IF reqs[s].kind = "seed" THEN PoolSize + 1 ELSE reqs[s].k
         IN reqs' = [reqs EXCEPT ![s] =
               [@ EXCEPT !.pc = "candidates", !.vec = vec, !.sims = sims,
                         !.top = TopIndices(sims, tie, n)]]
    /\ UNCHANGED <<disk, catalog, build, srv, engine, sortTie, store>>

\* target_vector, similarities and top_indices of either method
StepSimilarity(s) ==
    /\ reqs[s].pc = "similarity"
    /\ LET seed == reqs[s].kind = "seed"
       IN IF seed /\ reqs[s].row \notin DOMAIN engine.tfidf_matrix
          THEN reqs' = [reqs EXCEPT ![s] =
                  [@ EXCEPT !.pc = "done", !.out = Raise("IndexError", 0)]]
          ELSE IF ~seed /\ NRows(engine.tfidf_matrix) = 0
          THEN reqs' = [reqs EXCEPT ![s] =
                  [@ EXCEPT !.pc = "done", !.out = Raise("ValueError", 1)]]
          ELSE LET vec == IF seed THEN engine.tfidf_matrix[reqs[s].row]
                                  ELSE reqs[s].vec
                   sims == Similarities(vec, engine.tfidf_matrix)
                   n == IF seed THEN PoolSize + 1 ELSE reqs[s].k
               IN reqs' = [reqs EXCEPT ![s] =
                     [@ EXCEPT !.pc = "candidates", !.vec = vec, !.sims = sims,
                               !.top = TopIndices(sims, sortTie, n)]]
    /\ UNCHANGED <<disk, catalog, build, srv, engine, sortTie, store>>

\* the loop over top_indices of either method
StepCandidates(s) ==
    /\ reqs[s].pc = "candidates"
    /\ LET top == reqs[s].top
       IN IF \E i \in 1..Len(top) : top[i] \notin DOMAIN engine.id_map
          THEN reqs' = [reqs EXCEPT ![s] =
                  [@ EXCEPT !.pc = "done", !.out = Raise("KeyError", 1)]]
          ELSE LET ids == IF reqs[s].kind = "seed"
                          THEN SeedCandidateIds(engine.id_map, top, reqs[s].seed)
                          ELSE QueryCandidateIds(engine.id_map, top)
               IN reqs' = [reqs EXCEPT ![s] =
                     [@ EXCEPT !.pc = "rerank", !.cands = ids,
                        !.scores = SimScores(engine.id_map, top, reqs[s].sims, ids)]]
    /\ UNCHANGED <<disk, catalog, build, srv, engine, sortTie, store>>

\* (mutant: the popularity lookup is a setdefault, which stores the default
\* in the shared map)
StepRerank_setdefault(s) ==
    /\ reqs[s].pc = "rerank"
    /\ reqs' = [reqs EXCEPT ![s] =
          [@ EXCEPT !.pc = "done",
             !.out = Return(Take(rerank_candidates(engine.popularity_map,
                                    reqs[s].cands, reqs[s].scores), reqs[s].k), 1)]]
    /\ engine' = [engine EXCEPT !.popularity_map =
          [b \in DOMAIN @ \cup Range(reqs[s].cands) |->
              PopularityGet(engine.popularity_map, b)]]
    /\ UNCHANGED <<disk, catalog, build, srv, sortTie, store>>

\* self.rerank_candidates(candidate_ids, sim_scores)[:k]
StepRerank(s) ==
    /\ reqs[s].pc = "rerank"
    /\ reqs' = [reqs EXCEPT ![s] =
          [@ EXCEPT !.pc = "done",
             !.out = Return(Take(rerank_candidates(engine.popularity_map,
                                    reqs[s].cands, reqs[s].scores), reqs[s].k), 1)]]
    /\ UNCHANGED <<disk, catalog, build, srv, engine, sortTie, store>>

\* a direct call of rerank_candidates(candidate_ids, sim_scores)
CallRerank(s) ==
    /\ reqs[s].pc = "call_rerank"
    /\ reqs' = [reqs EXCEPT ![s] =
          [@ EXCEPT !.pc = "done",
             !.out = Return(rerank_candidates(engine.popularity_map,
                                              reqs[s].cands, reqs[s].scores), 0)]]
    /\ UNCHANGED <<disk, catalog, build, srv, engine, sortTie, store>>

-----------------------------------------------------------------------------
(* The server on any artifact directory, one request at a time *)

\* the database before ingestion: no bottle, no collection entry, no swipe
EmptyStore == [bottles |-> EmptyMap, collections |-> <<>>, swipes |-> <<>>]

NoBuild == [pc |-> "off", run |-> 0]
NoCatalog == [rows |-> <<>>, ratings |-> TRUE]

Init ==
    /\ disk \in GoodDirs \cup BadDirs
    /\ catalog = NoCatalog
    /\ build = NoBuild
    /\ srv = Srv("boot", 0)
    /\ engine = NewEngine
    /\ reqs = [s \in {1} |-> Idle]
    /\ sortTie \in {"index_asc", "index_desc"}
    /\ store = EmptyStore

Next ==
    \/ Boot
    \/ LoadVectorizer
    \/ LoadMatrix
    \/ LoadIdMap
    \/ LoadPopularity
    \/ BuildReverseMap
    \/ Publish
    \/ \E s \in DOMAIN reqs : ServeSeed(s)
    \/ \E s \in DOMAIN reqs : ServeQuery(s)
    \/ \E s \in DOMAIN reqs : Respond(s)

Spec == Init /\ [][Next]_vars


-----------------------------------------------------------------------------
(* Properties of the engine behind a started server (Spec) *)

Done(s) == reqs[s].pc = "done"
Returned(s) == Done(s) /\ reqs[s].out.kind = "return"
EngineFields == {"vectorizer", "tfidf_matrix", "id_map", "reverse_map", "popularity_map"}
Injective(f) == \A x, y \in DOMAIN f : f[x] = f[y] => x = y
\* the loaded artifacts fit together: one id per row, one row per id
Consistent(e) ==
    /\ DOMAIN e.id_map = DOMAIN e.tfidf_matrix
    /\ Injective(e.id_map)

\* C1. Self-exclusion: a list returned by recommend_by_bottle_id(seed, k) for a
\* seed known to the engine never contains the seed.
C1_SelfExclusion ==
    \A s \in DOMAIN reqs :
        (Returned(s) /\ reqs[s].kind = "seed"
            /\ reqs[s].seed \in DOMAIN engine.reverse_map)
        => reqs[s].seed \notin Range(reqs[s].out.list)

\* C1 witness: a known seed of an at least two-row corpus got every other item.
C1_Witness ==
    \E s \in DOMAIN reqs :
        /\ Returned(s) /\ reqs[s].kind = "seed"
        /\ reqs[s].seed \in DOMAIN engine.reverse_map
        /\ Consistent(engine)
        /\ NRows(engine.tfidf_matrix) >= 2
        /\ Len(reqs[s].out.list) = NRows(engine.tfidf_matrix) - 1

\* C2. Unknown seed: recommend_by_bottle_id of an id that is no key of
\* reverse_map returns the empty list, raises nothing and computes no
\* similarity.
C2_UnknownSeedEmpty ==
    \A s \in DOMAIN reqs :
        (Done(s) /\ reqs[s].kind = "seed"
            /\ reqs[s].seed \notin DOMAIN engine.reverse_map)
        => reqs[s].out = Return(<<>>, 0)

\* C2 witness: an unknown seed was asked of an engine that has items.
C2_Witness ==
    \E s \in DOMAIN reqs :
        /\ Done(s) /\ reqs[s].kind = "seed"
        /\ reqs[s].seed \notin DOMAIN engine.reverse_map
        /\ NRows(engine.tfidf_matrix) >= 1
        /\ DOMAIN engine.reverse_map # {}

\* the length bound of C3 for a corpus of n rows
LengthBound(s, n) ==
    Len(reqs[s].out.list) <=
        Min2(reqs[s].k, IF reqs[s].kind = "seed" THEN n - 1 ELSE n)

C4_LoadedMapIsBijective ==
    srv.pc = "serving" =>
        /\ Injective(engine.id_map)
        /\ Cardinality(DOMAIN engine.reverse_map) = Cardinality(DOMAIN engine.id_map)

\* C5. Load-time size check: an engine that load_artifacts handed to the
\* server has as many matrix rows as row -> id entries.
C5_LoadedSizesAgree ==
    srv.pc = "serving" =>
        NRows(engine.tfidf_matrix) = Cardinality(DOMAIN engine.id_map)

\* C7. The engine never raises on query input: every request handled after
\* load ends with a returned list.  Stated for artifact sets that fit together
\* (C4 and C5 hold of them), the empty corpus included.
C7_NeverRaises ==
    \A s \in DOMAIN reqs : (Done(s) /\ Consistent(engine)) => Returned(s)

\* C8. Load-before-serve: load_artifacts is called at most once; a request is
\* handled only by a serving server whose one load completed (all five fields
\* set, engine published); after a failed load the engine is not published
\* and no request is being handled.
C8_LoadBeforeServe ==
    /\ srv.loads <= 1
    /\ (\E s \in DOMAIN reqs : reqs[s].pc # "idle") =>
          /\ srv.pc = "serving"
          /\ srv.loads = 1
          /\ engine.published
          /\ engine.set = EngineFields
    /\ engine.published => engine.set = EngineFields
    /\ srv.pc = "crashed" => ~engine.published

\* C8 witness: the load failed after the first files were read.
C8_Witness ==
    /\ srv.pc = "crashed"
    /\ srv.loads = 1
    /\ "tfidf_matrix" \in engine.set


-----------------------------------------------------------------------------
(* The server with two requests in flight (SpecConcurrent) *)

\* corpora of MaxRows items that share terms, with and without popularity
ConcurrentDirs ==
    {ArtifactDir(OkFile(0, Vocab), OkFile(0, m),
                 OkFile(0, [i \in ZeroBased(MaxRows) |-> i + 1]), OkFile(0, p)) :
        m \in [ZeroBased(MaxRows) -> {r \in RowTypes : r[<<"a", "b">>] = 1}],
        p \in PopMaps(Ids)}

InitConcurrent ==
    /\ disk \in ConcurrentDirs
    /\ catalog = NoCatalog
    /\ build = NoBuild
    /\ srv = Srv("boot", 0)
    /\ engine = NewEngine
    /\ reqs = [s \in {1, 2} |-> Idle]
    /\ sortTie \in {"index_asc", "index_desc"}
    /\ store = EmptyStore

NextConcurrent ==
    \/ Boot
    \/ LoadVectorizer
    \/ LoadMatrix
    \/ LoadIdMap
    \/ LoadPopularity
    \/ BuildReverseMap
    \/ Publish
    \/ \E s \in DOMAIN reqs : Receive(s)
    \/ \E s \in DOMAIN reqs : StepLookup(s)
    \/ \E s \in DOMAIN reqs : StepVectorize(s)
    \/ \E s \in DOMAIN reqs : StepSimilarity(s)
    \/ \E s \in DOMAIN reqs : StepCandidates(s)
    \/ \E s \in DOMAIN reqs : StepRerank(s)
    \/ \E s \in DOMAIN reqs : Respond(s)

SpecConcurrent == InitConcurrent /\ [][NextConcurrent]_vars

\* what the request of slot s returns when it is the only one
Alone(s) ==
    IF reqs[s].kind = "seed"
    THEN recommend_by_bottle_id(engine, sortTie, reqs[s].seed, reqs[s].k)
    ELSE recommend_by_query(engine, sortTie, reqs[s].text, reqs[s].k)

SameRequest(s, t) ==
    /\ reqs[s].kind = reqs[t].kind
    /\ reqs[s].seed = reqs[t].seed
    /\ reqs[s].text = reqs[t].text
    /\ reqs[s].k = reqs[t].k

\* C9. Read-only shared state under concurrency: once the server serves, no
\* step of any request changes one of the five engine fields, however the
\* requests interleave, and a request that is done holds exactly the list it
\* returns when run alone.
C9_ReadOnlyEngine ==
    /\ [][srv.pc = "serving" => engine' = engine]_vars
    /\ [](\A s \in DOMAIN reqs : Done(s) => reqs[s].out = Alone(s))

\* C9 witness: one request is done with a non-empty list while the other is
\* between its similarity scan and its rerank.
C9_Witness ==
    \E s, t \in DOMAIN reqs :
        /\ s # t
        /\ Returned(s) /\ reqs[s].out.list # <<>>
        /\ reqs[t].pc = "rerank" /\ reqs[t].cands # <<>>

-----------------------------------------------------------------------------
(* The builder run again and again on an artifact directory (SpecBuild) *)

EmptyDir ==
    ArtifactDir(BadFile("missing", {}), BadFile("missing", EmptyMap),
                BadFile("missing", EmptyMap), BadFile("missing", EmptyMap))

InitBuild ==
    /\ disk = EmptyDir
    /\ catalog = NoCatalog
    /\ build = NoBuild
    /\ srv = Srv("boot", 0)
    /\ engine = NewEngine
    /\ reqs = [s \in {1} |-> Idle]
    /\ sortTie = "index_asc"
    /\ store = EmptyStore

NextBuild ==
    \/ StartBuild
    \/ Fit
    \/ WriteVectorizer
    \/ WriteMatrix
    \/ WriteIdMap
    \/ ComputePopularity
    \/ WritePopularity

SpecBuild == InitBuild /\ [][NextBuild]_vars

\* the files of the directory that run r wrote
FilesOfRun(r) == {f \in DOMAIN disk : disk[f].status = "ok" /\ disk[f].run = r}

\* C6. All-or-none artifact publishing: after every run of the builder, a run
\* that failed part-way included, the directory holds all four artifacts of
\* that run or none of them.
C6_AllOrNone ==
    build.pc \in {"done", "failed"} => FilesOfRun(build.run) \in {DOMAIN disk, {}}


-----------------------------------------------------------------------------
(* The builder running while the server starts on the same directory *)
(* (SpecSnapshot)                                                     *)

NextSnapshot ==
    \/ StartBuild
    \/ Fit
    \/ WriteVectorizer
    \/ WriteMatrix
    \/ WriteIdMap
    \/ ComputePopularity
    \/ WritePopularity
    \/ Boot
    \/ LoadVectorizer
    \/ LoadMatrix
    \/ LoadIdMap
    \/ LoadPopularity
    \/ BuildReverseMap
    \/ Publish

SpecSnapshot == InitBuild /\ [][NextSnapshot]_vars

\* the four artifacts one run of the builder makes of the CSV c
SnapshotOf(c) ==
    [vectorizer |-> FitVocabulary(c.rows),
     tfidf_matrix |-> FitMatrix(c.rows),
     id_map |-> BuildIdMap(c.rows),
     popularity_map |-> compute_popularity_scores(c.rows)]

\* C11. Snapshot consistency of what the engine loads: however a builder run
\* interleaves with load_artifacts, the four artifacts of a published engine
\* are those of one run on one CSV.
C11_SnapshotConsistent ==
    engine.published =>
        \E c \in Catalogs :
            \A f \in DOMAIN SnapshotOf(c) : engine[f] = SnapshotOf(c)[f]


-----------------------------------------------------------------------------
(* rerank_candidates on any candidate pool (SpecRerank) *)

PoolIds == 1..4
\* raw similarities: the extremes and two neighbouring values
SimValues == {0, 3, 4, Scale}

\* lists of distinct ids
RECURSIVE Pools(_)
Pools(ids) ==
    {<<>>} \cup UNION {{<<b>> \o rest : rest \in Pools(ids \ {b})} : b \in ids}

\* popularity maps: empty, partial with the extreme scores, or one score for all
RerankPopMaps ==
    {EmptyMap, [b \in {1, 2} |-> IF b = 1 THEN 0 ELSE Scale],
     [b \in PoolIds |-> Scale \div 2]}

InitRerank ==
    /\ disk = EmptyDir
    /\ catalog = NoCatalog
    /\ build = NoBuild
    /\ srv = Srv("serving", 1)
    /\ \E pm \in RerankPopMaps :
         engine = [NewEngine EXCEPT !.popularity_map = pm,
                                    !.set = EngineFields, !.published = TRUE]
    /\ \E cands \in Pools(PoolIds) : \E scores \in [Range(cands) -> SimValues] :
         reqs = [s \in {1} |->
                   [Idle EXCEPT !.pc = "call_rerank", !.cands = cands, !.scores = scores]]
    /\ sortTie = "index_asc"
    /\ store = EmptyStore

NextRerank == \E s \in DOMAIN reqs : CallRerank(s)

SpecRerank == InitRerank /\ [][NextRerank]_vars

\* the pool, the raw similarities and the output of the call in slot 1
Pool == reqs[1].cands
Raw(b) == reqs[1].scores[b]
Ranked == reqs[1].out.list
Reranked == Returned(1) /\ reqs[1].kind = "-"

\* where b stands in a list of distinct ids
Pos(list, b) == CHOOSE p \in 1..Len(list) : list[p] = b
Before(list, a, b) == Pos(list, a) < Pos(list, b)

\* the scores as the contract words them, in the engine's arithmetic
ContractPopularity(b) ==
    IF b \in DOMAIN engine.popularity_map
    THEN engine.popularity_map[b] ELSE (2 * Scale) \div 5
ContractNorm(b) ==
    LET raws == {Raw(c) : c \in Range(Pool)}
        lo == CHOOSE x \in raws : \A y \in raws : x <= y
        hi == CHOOSE x \in raws : \A y \in raws : x >= y
    IN IF hi = lo THEN 0 ELSE ((Raw(b) - lo) * Scale) \div (hi - lo)
ContractScore(b) ==
    Round(Alpha * ContractNorm(b), Percent)
        + Round((Percent - Alpha) * ContractPopularity(b), Percent)

\* C12. Rerank ordering: the output holds the candidates of the pool, each
\* once, by non-increasing final_score = alpha * norm + (1 - alpha) *
\* popularity with norm taken within the pool; an empty pool gives [].
C12_RerankOrdering ==
    Reranked =>
        /\ Len(Ranked) = Len(Pool)
        /\ Range(Ranked) = Range(Pool)
        /\ \A p, q \in 1..Len(Ranked) :
              p < q => ContractScore(Ranked[p]) >= ContractScore(Ranked[q])

\* C12 witness: a pool of four with distinct final scores came back in an
\* order other than the input's.
C12_Witness ==
    /\ Reranked /\ Len(Pool) = 4 /\ Ranked # Pool
    /\ \A a, b \in Range(Pool) : a # b => ContractScore(a) # ContractScore(b)

\* C13. Rerank tie stability: two candidates of exactly equal final_score
\* come back in the relative order they had in the input.
C13_TieStability ==
    Reranked =>
        \A a, b \in Range(Pool) :
            (ContractScore(a) = ContractScore(b) /\ Before(Pool, a, b))
                => Before(Ranked, a, b)

\* C13 witness: two candidates tie though their raw similarities differ, and
\* a third candidate was moved in front of both.
C13_Witness ==
    /\ Reranked
    /\ \E a, b, c \in Range(Pool) :
          /\ ContractScore(a) = ContractScore(b) /\ Raw(a) # Raw(b)
          /\ Before(Pool, a, b) /\ Before(Pool, b, c) /\ Before(Ranked, c, a)

\* C14 as stated. Rerank monotonicity: of two candidates with equal
\* popularity, the one with the higher raw similarity is placed first.
C14_MonotoneAsStated ==
    Reranked =>
        \A a, b \in Range(Pool) :
            (ContractPopularity(a) = ContractPopularity(b) /\ Raw(a) > Raw(b))
                => Before(Ranked, a, b)

\* C14. Rerank monotonicity: of two candidates with equal popularity, the one
\* with the higher raw similarity has a final score that is not lower; it is
\* placed first when its final score is higher or when it came first in the
\* input (rounding can make the two final scores equal).
C14_Monotone ==
    Reranked =>
        \A a, b \in Range(Pool) :
            (ContractPopularity(a) = ContractPopularity(b) /\ Raw(a) > Raw(b))
                => /\ ContractScore(a) >= ContractScore(b)
                   /\ (ContractScore(a) > ContractScore(b) \/ Before(Pool, a, b))
                         => Before(Ranked, a, b)

\* C14 witness: the candidate of higher similarity came after the other in
\* the input and before it in the output.
C14_Witness ==
    /\ Reranked
    /\ \E a, b \in Range(Pool) :
          /\ ContractPopularity(a) = ContractPopularity(b) /\ Raw(a) > Raw(b)
          /\ Before(Pool, b, a) /\ Before(Ranked, a, b)

\* the popularity map with the default stored for every candidate it lacks
Completed(pm) ==
    Tab([b \in DOMAIN pm \cup Range(Pool) |->
            IF b \in DOMAIN pm THEN pm[b] ELSE (2 * Scale) \div 5])

\* C15. Popularity miss tolerated: the call returns, and its output is the
\* one of a map in which every missing candidate is stored with 0.4 and the
\* stored scores are kept.
C15_PopularityMiss ==
    (Done(1) /\ reqs[1].kind = "-") =>
        /\ reqs[1].out.kind = "return"
        /\ Ranked = rerank_candidates(Completed(engine.popularity_map),
                                      Pool, reqs[1].scores)

\* C15 witness: a candidate absent from the map is ranked between two
\* candidates that are in it.
C15_Witness ==
    /\ Reranked
    /\ \E a, b, c \in Range(Pool) :
          /\ a \in DOMAIN engine.popularity_map /\ c \in DOMAIN engine.popularity_map
          /\ b \notin DOMAIN engine.popularity_map
          /\ Before(Ranked, a, b) /\ Before(Ranked, b, c)


-----------------------------------------------------------------------------
(* compute_popularity_scores on any rated corpus (SpecPopularity) *)

RatingCounts == {0, VoteThreshold, 3 * VoteThreshold}
RatingValues == {0, 2 * Scale, 4 * Scale}

\* corpora of 1..MaxRows + 1 items with distinct ids
RatedCatalogs ==
    UNION {{Catalog([i \in 1..n |-> CsvRow(i, ZeroRow, v[i], R[i])], TRUE) :
                v \in [1..n -> RatingCounts], R \in [1..n -> RatingValues]} :
           n \in 1..(MaxRows + 1)}

InitPopularity ==
    /\ disk = EmptyDir
    /\ catalog \in RatedCatalogs
    /\ build = [pc |-> "popularity", run |-> 1]
    /\ srv = Srv("boot", 0)
    /\ engine = NewEngine
    /\ reqs = [s \in {1} |-> Idle]
    /\ sortTie = "index_asc"
    /\ store = EmptyStore

NextPopularity ==
    \/ ComputePopularity
    \/ WritePopularity

SpecPopularity == InitPopularity /\ [][NextPopularity]_vars

\* the items of the corpus and the scores the run wrote for them
Items == 1..Len(catalog.rows)
Scored == build.pc = "done" /\ disk.popularity_map.status = "ok"
Score(i) == disk.popularity_map.data[catalog.rows[i].original_index]
Count(i) == catalog.rows[i].v
Rating(i) == catalog.rows[i].R

\* the weighted rating as the contract words it
ContractMean ==
    LET rated == {i \in Items : Count(i) > 0}
    IN SumSet([i \in rated |-> Rating(i)], rated) \div Cardinality(rated)
ContractWR(i) ==
    (Count(i) * Rating(i) + 50 * ContractMean) \div (Count(i) + 50)
\* every item has the same weighted rating: no item is rated, or all agree
AllEqualWR ==
    \/ \A i \in Items : Count(i) = 0
    \/ \A i, j \in Items : ContractWR(i) = ContractWR(j)
Distance(x, y) == IF x >= y THEN x - y ELSE y - x

\* C16. Degenerate popularity corpus: when every item has the same weighted
\* rating, every item gets the same finite constant 0.5, never NaN.
C16_DegenerateConstant ==
    (Scored /\ AllEqualWR) => \A i \in Items : Score(i) = Scale \div 2

\* C17. Popularity range: in a corpus whose weighted ratings are not all
\* equal, every score lies in [0,1], every item of maximum WR gets 1.0 and
\* every item of minimum WR gets 0.0.
C17_PopularityRange ==
    (Scored /\ ~AllEqualWR) =>
        \A i \in Items :
            /\ Score(i) >= 0 /\ Score(i) <= Scale
            /\ (\A j \in Items : ContractWR(i) >= ContractWR(j)) => Score(i) = Scale
            /\ (\A j \in Items : ContractWR(i) <= ContractWR(j)) => Score(i) = 0

\* C17 witness: a corpus of three items scored 0, strictly between, and 1.
C17_Witness ==
    /\ Scored /\ ~AllEqualWR
    /\ \E i, j, k \in Items :
          Score(i) = 0 /\ Score(j) > 0 /\ Score(j) < Scale /\ Score(k) = Scale

\* C18. Popularity monotonicity: of two items with the same rating count the
\* one of higher rating has a score that is not lower; of two items with the
\* same rating the one with more ratings has a WR at least as close to it.
C18_PopularityMonotone ==
    Scored =>
        \A i, j \in Items :
            /\ (Count(i) = Count(j) /\ Rating(i) > Rating(j))
                  => (Score(i) # NaN /\ Score(j) # NaN /\ Score(i) >= Score(j))
            /\ (Rating(i) = Rating(j) /\ Count(i) > Count(j))
                  => Distance(ContractWR(i), Rating(i))
                        <= Distance(ContractWR(j), Rating(j))


-----------------------------------------------------------------------------
(* build_soup on any catalog row (SpecSoup) *)

\* cells of an accord column: null, a word to clean, and placeholders
AccordCells ==
    {NonStr, Str(<<"A", "b", "!">>), Str(<<"U", "n", "k", "n", "o", "w", "n">>),
     Str(<<" ", "N", "a", "n">>)}

\* cells of a note column: null, and comma-separated lists (one with a note
\* of two words)
NoteCells ==
    {NonStr,
     Str(<<"c", "d", ",", "N", "u", "l", "l", ",", " ", "a", "b">>),
     Str(<<"u", "n", "k", "n", "o", "w", "n", ",", ",", "c", " ", "-", "d">>)}

CsvRows ==
    {[mainaccord |-> a, Top |-> t, Middle |-> m, Base |-> b, metadata_soup |-> <<>>] :
        a \in [AccordSlots -> AccordCells],
        t \in NoteCells, m \in NoteCells, b \in NoteCells}

InitSoup ==
    /\ disk = EmptyDir
    /\ \E row \in CsvRows : catalog = Catalog(<<row>>, TRUE)
    /\ build = [pc |-> "soup", run |-> 1]
    /\ srv = Srv("boot", 0)
    /\ engine = NewEngine
    /\ reqs = [s \in {1} |-> Idle]
    /\ sortTie = "index_asc"
    /\ store = EmptyStore

NextSoup == ApplyBuildSoup

SpecSoup == InitSoup /\ [][NextSoup]_vars

\* the row, and its profile once build_soup has run
Row == catalog.rows[1]
Souped == build.pc = "fit" /\ Len(catalog.rows) = 1
Profile == Row.metadata_soup
ProfileTokens == Split(Profile, " ", <<>>)

\* the placeholder values of the contract
ContractPlaceholders ==
    {<<"u", "n", "k", "n", "o", "w", "n">>, <<"n", "u", "l", "l">>,
     <<"n", "a", "n">>, <<"n", "o", "n", "e">>}
ContractRetained(tok) == tok # <<>> /\ tok \notin ContractPlaceholders

\* the layout of the contract: retained accords three times each, in slot
\* order, then the retained notes of Top, Middle and Base, once each
ContractNotes(cell) ==
    LET pieces == Split(PyStr(cell), ",", <<>>)
    IN SelectSeq([i \in 1..Len(pieces) |-> clean_token(Str(pieces[i]))],
                 ContractRetained)
ContractLayout ==
    Concat([i \in AccordSlots |->
        LET tok == clean_token(Row.mainaccord[i])
        IN IF ContractRetained(tok) THEN <<tok, tok, tok>> ELSE <<>>])
    \o ContractNotes(Row.Top) \o ContractNotes(Row.Middle) \o ContractNotes(Row.Base)

\* C19. Placeholder dropping in profiles: the profile holds no token that is
\* empty or equal to "unknown", "null", "nan" or "none".
C19_NoPlaceholders ==
    Souped =>
        \A i \in 1..Len(ProfileTokens) :
            /\ Profile # <<>> => ProfileTokens[i] # <<>>
            /\ ProfileTokens[i] \notin ContractPlaceholders

\* C20. Profile layout: leaving aside the tokens the contract drops, the
\* profile is each retained accord three times, accord1..accord5, followed
\* by each retained note once, Top, Middle, Base, in the order of the fields.
C20_ProfileLayout ==
    Souped => Join(SelectSeq(ProfileTokens, ContractRetained)) = Join(ContractLayout)

\* C20 witness: a profile of two different accords, three times each, and at
\* least two notes after them.
C20_Witness ==
    /\ Souped
    /\ Len(ContractLayout) >= 8
    /\ ContractLayout[1] = ContractLayout[3]
    /\ ContractLayout[4] = ContractLayout[6]
    /\ \E i \in AccordSlots : ~ContractRetained(clean_token(Row.mainaccord[i]))
    /\ Len(ContractNotes(Row.Top)) >= 2

-----------------------------------------------------------------------------
(* scripts/ingest_bottles.py: the CSV is read row by row into the bottles
   table *)

\* Python's None, and a value that is not None
PyNone == [none |-> TRUE]
Some(v) == [none |-> FALSE, val |-> v]

\* what a conversion gives: a value, or a ValueError
Parsed(v) == [raised |-> FALSE, val |-> v]
ValueError == [raised |-> TRUE, val |-> 0]

IsDigit(c) == c \in {"0", "1", "2", "3", "4", "5", "6", "7", "8", "9"}
DigitValue(c) ==
    CASE c = "0" -> 0 [] c = "1" -> 1 [] c = "2" -> 2 [] c = "3" -> 3
      [] c = "4" -> 4 [] c = "5" -> 5 [] c = "6" -> 6 [] c = "7" -> 7
      [] c = "8" -> 8 [] c = "9" -> 9

AllDigits(s) == \A i \in 1..Len(s) : IsDigit(s[i])

RECURSIVE DigitsValue(_, _)
DigitsValue(s, acc) ==
    IF s = <<>> THEN acc ELSE DigitsValue(Tail(s), 10 * acc + DigitValue(Head(s)))

\* int(s) of a str: surrounding blanks are ignored, the rest must be digits
PyInt(s) ==
    LET t == Strip(s)
    IN IF t # <<>> /\ AllDigits(t) THEN Parsed(DigitsValue(t, 0)) ELSE ValueError

\* the first three decimals of a fraction, in thousandths
Thousandths(s) ==
    DigitsValue(Take(s \o <<"0", "0", "0">>, 3), 0)

\* float(s) of a str, in thousandths: digits with at most one decimal point
PyFloat(s) ==
    LET t == Strip(s)
        parts == Split(t, ".", <<>>)
    IN IF /\ Len(parts) <= 2
          /\ \A i \in 1..Len(parts) : AllDigits(parts[i])
          /\ \E i \in 1..Len(parts) : parts[i] # <<>>
       THEN Parsed(DigitsValue(parts[1], 0) * Scale
                   + (IF Len(parts) = 2 THEN Thousandths(parts[2]) ELSE 0))
       ELSE ValueError

\* value.replace(',', '.')
ReplaceComma(s) == Tab([i \in 1..Len(s) |-> IF s[i] = "," THEN "." ELSE s[i]])

\* parse_rating(value)
parse_rating(value) ==
    LET v == Strip(value)
    IN IF v = <<>> THEN PyNone
       ELSE LET f == PyFloat(ReplaceComma(v))
            IN IF f.raised THEN PyNone ELSE Some(f.val)

\* clean_text(value)
clean_text(value) ==
    IF value = <<>> THEN PyNone
    ELSE LET cleaned == Strip(value)
         IN IF cleaned = <<>>
               \/ [i \in 1..Len(cleaned) |-> Lower(cleaned[i])]
                    = <<"u", "n", "k", "n", "o", "w", "n">>
            THEN PyNone ELSE Some(cleaned)

\* the `bottle` dict of one CSV row (its id, name, rating and year columns),
\* or the ValueError of the first conversion that fails
Bottle(row) ==
    LET id == PyInt(row.original_index)
        rating_count == IF Strip(row.Rating_Count) # <<>>
                        THEN PyInt(row.Rating_Count) ELSE Parsed(PyNone)
        year == IF Strip(row.Year) # <<>>
                THEN PyFloat(row.Year) ELSE Parsed(PyNone)
    IN IF id.raised \/ rating_count.raised \/ year.raised THEN ValueError
       ELSE Parsed([original_index |-> id.val,
                    name |-> clean_text(row.Perfume),
                    rating_value |-> parse_rating(row.Rating_Value),
                    rating_count |-> IF Strip(row.Rating_Count) # <<>>
                                     THEN Some(rating_count.val) ELSE PyNone,
                    year |-> IF Strip(row.Year) # <<>>
                             THEN Some(year.val \div Scale) ELSE PyNone])

BATCH_SIZE == 100

\* supabase.table("bottles").upsert(batch, on_conflict="original_index")
UpsertBottles(bottles, batch) ==
    LET ids == {batch[i].original_index : i \in 1..Len(batch)}
    IN Tab([id \in DOMAIN bottles \cup ids |->
              IF id \in ids
              THEN batch[CHOOSE i \in 1..Len(batch) : batch[i].original_index = id]
              ELSE bottles[id]])

Ingesting == build.pc = "ingest"

\* one pass of `for row in reader`: a ValueError ends the script
IngestRow ==
    /\ Ingesting
    /\ build.pos < Len(catalog.rows)
    /\ LET bottle == Bottle(catalog.rows[build.pos + 1])
           batch == Append(build.batch, bottle.val)
       IN IF bottle.raised
          THEN /\ build' = [build EXCEPT !.pc = "aborted"]
               /\ UNCHANGED store
          ELSE IF Len(batch) >= BATCH_SIZE
          THEN /\ store' = [store EXCEPT !.bottles = UpsertBottles(@, batch)]
               /\ build' = [build EXCEPT !.pos = @ + 1, !.count = @ + 1,
                                         !.batch = <<>>]
          ELSE /\ build' = [build EXCEPT !.pos = @ + 1, !.count = @ + 1,
                                         !.batch = batch]
               /\ UNCHANGED store
    /\ UNCHANGED <<disk, catalog, srv, engine, reqs, sortTie>>

\* after the loop: the rows that did not fill a batch are upserted
IngestRemaining ==
    /\ Ingesting
    /\ build.pos = Len(catalog.rows)
    /\ store' = IF build.batch # <<>>
                THEN [store EXCEPT !.bottles = UpsertBottles(@, build.batch)]
                ELSE store
    /\ build' = [build EXCEPT !.pc = "done", !.batch = <<>>]
    /\ UNCHANGED <<disk, catalog, srv, engine, reqs, sortTie>>

\* the decimal text of a natural number
RECURSIVE IntText(_)
IntText(n) ==
    LET d == <<"0", "1", "2", "3", "4", "5", "6", "7", "8", "9">>[(n % 10) + 1]
    IN IF n < 10 THEN <<d>> ELSE Append(IntText(n \div 10), d)

\* the cells of a CSV line: well-formed, blank, and unparsable ones
CsvLine(id_ok, name, value, count, year) ==
    [id_ok |-> id_ok, Perfume |-> name, Rating_Value |-> value,
     Rating_Count |-> count, Year |-> year]
GoodLine == CsvLine(TRUE, <<"a", "b">>, <<"4", ",", "5">>, <<"1", "2">>,
                    <<"2", "0", ".", "0">>)
CsvLines ==
    {GoodLine,
     CsvLine(TRUE, <<>>, <<>>, <<" ">>, <<>>),
     CsvLine(TRUE, <<"U", "n", "k", "n", "o", "w", "n">>, <<"a", "b">>,
             <<" ", "7">>, <<"2", "1">>),
     CsvLine(TRUE, <<"a", "b">>, <<"4", ",", "5">>, <<"a", "b">>, <<"2", "0">>),
     CsvLine(TRUE, <<"a", "b">>, <<"4", ",", "5">>, <<"1", ",", "5">>, <<"2", "0">>),
     CsvLine(TRUE, <<"a", "b">>, <<"4", ",", "5">>, <<"1", "2">>, <<"a", "b">>),
     CsvLine(FALSE, <<"a", "b">>, <<"4", ",", "5">>, <<"1", "2">>, <<"2", "0">>)}

\* the CSV with these lines: a line's original_index is its position, or
\* blank when the line has no valid id
IngestCsv(lines) ==
    Tab([i \in 1..Len(lines) |->
           [original_index |-> IF lines[i].id_ok THEN IntText(i) ELSE <<>>,
            Perfume |-> lines[i].Perfume,
            Rating_Value |-> lines[i].Rating_Value,
            Rating_Count |-> lines[i].Rating_Count,
            Year |-> lines[i].Year]])

\* a CSV of more than one batch: well-formed lines, but for one line at
\* `bad` (0: none) whose rating count is unparsable
LongCsv(bad) ==
    IngestCsv([i \in 1..(BATCH_SIZE + 1) |->
                 IF i = bad THEN [GoodLine EXCEPT !.Rating_Count = <<"a", "b">>]
                 ELSE GoodLine])

IngestCsvs ==
    {IngestCsv(lines) : lines \in UNION {[1..n -> CsvLines] : n \in 0..MaxRows}}
    \cup {LongCsv(bad) : bad \in {0, BATCH_SIZE, BATCH_SIZE + 1}}

InitIngest ==
    /\ disk = EmptyDir
    /\ \E csv \in IngestCsvs : catalog = Catalog(csv, TRUE)
    /\ build = [pc |-> "ingest", run |-> 1, pos |-> 0, count |-> 0, batch |-> <<>>]
    /\ srv = Srv("boot", 0)
    /\ engine = NewEngine
    /\ reqs = [s \in {1} |-> Idle]
    /\ sortTie = "index_asc"
    /\ store = EmptyStore

NextIngest == IngestRow \/ IngestRemaining

SpecIngest == InitIngest /\ [][NextIngest]_vars

\* the rows of the CSV, and the one the script stopped at
CsvLen == Len(catalog.rows)
ValidId(row) == ~PyInt(row.original_index).raised
Aborted == build.pc = "aborted"
Ingested == build.pc = "done"

\* the row the contract asks for: a field that does not parse is null
ContractField(text, parsed) ==
    IF Strip(text) = <<>> \/ parsed.raised THEN PyNone ELSE Some(parsed.val)
ContractBottle(row) ==
    [original_index |-> PyInt(row.original_index).val,
     name |-> clean_text(row.Perfume),
     rating_value |-> ContractField(row.Rating_Value,
                                    PyFloat(ReplaceComma(row.Rating_Value))),
     rating_count |-> ContractField(row.Rating_Count, PyInt(row.Rating_Count)),
     year |-> LET y == PyFloat(row.Year)
              IN ContractField(row.Year, [y EXCEPT !.val = @ \div Scale])]

\* C21: a row with a valid id and an unparsable rating value, rating count or
\* year does not abort the ingest; it is stored with the unparsable field
\* null, and the rows before and after it are stored as they would be
\* without it
C21_TolerantParsing ==
    /\ Aborted => ~ValidId(catalog.rows[build.pos + 1])
    /\ Ingested =>
          \A i \in 1..CsvLen :
              ValidId(catalog.rows[i]) =>
                  LET b == ContractBottle(catalog.rows[i])
                  IN /\ b.original_index \in DOMAIN store.bottles
                     /\ store.bottles[b.original_index] = b

-----------------------------------------------------------------------------
(* The HTTP layer over the engine: routers/recommendations.py and
   routers/swipe_candidates.py *)

\* an optional query parameter: None when the request does not carry it
Absent == [given |-> FALSE, val |-> 0]
Given(v) == [given |-> TRUE, val |-> v]

\* None, passed on as a bottle id: no key of any dict of the engine
NoId == 0 - 1

\* normalize_bottle(db_row): the card of a row (its id, name, rating and year)
normalize_bottle(db_row) ==
    [bottle_id |-> db_row.original_index, name |-> db_row.name,
     rating_value |-> db_row.rating_value, rating_count |-> db_row.rating_count,
     year |-> db_row.year]

\* the normalize_bottle that routers/recommendations.py imports from
\* utils.bottles: the same card
bottles_normalize_bottle(db_row) == normalize_bottle(db_row)

\* supabase.table("bottles").select("*").in_("original_index", bottle_ids),
\* then {row["original_index"]: row for row in response.data}
BottlesById(bottles, bottle_ids) ==
    Tab([id \in Range(bottle_ids) \cap DOMAIN bottles |-> bottles[id]])

\* (mutant: the rows are taken from response.data, in the order of the table)
RankedRows_table_order(bottles_by_id, bottle_ids) ==
    LET Ordered[S \in SUBSET DOMAIN bottles_by_id] ==
            IF S = {} THEN <<>>
            ELSE LET least == CHOOSE x \in S : \A y \in S : x <= y
                 IN <<bottles_by_id[least]>> \o Ordered[S \ {least}]
    IN Ordered[DOMAIN bottles_by_id]

\* for bottle_id in bottle_ids: if bottle_id in bottles_by_id: the rows whose
\* cards are appended to results
RankedRows(bottles_by_id, bottle_ids) ==
    LET kept == SelectSeq(bottle_ids, LAMBDA b : b \in DOMAIN bottles_by_id)
    IN Tab([i \in 1..Len(kept) |-> bottles_by_id[kept[i]]])

\* a handled request: what it asked, the engine call it made and what the
\* call gave, the tables it read, and its response
Handled(endpoint, q, seed_bottle_id, k, call, out, reads, status, mode, results) ==
    [pc |-> "done", endpoint |-> endpoint, q |-> q, seed_bottle_id |-> seed_bottle_id,
     k |-> k, call |-> call, out |-> out, reads |-> reads,
     status |-> status, mode |-> mode, results |-> results]

NoCall == [method |-> "-", text |-> NonStr, bottle_id |-> NoId, k |-> 0]
QueryCall(text, k) == [NoCall EXCEPT !.method = "recommend_by_query", !.text = text, !.k = k]
SeedCall(bottle_id, k) ==
    [NoCall EXCEPT !.method = "recommend_by_bottle_id", !.bottle_id = bottle_id, !.k = k]

\* bool(q) of `if q:`: a str that is not empty
Truthy(q) == q.isStr /\ q.chars # <<>>

\* if q: ... else: ...
QueryMode(q) == Truthy(q)

\* get_recommendations(request, q, seed_bottle_id, k); q is NonStr when the
\* request has no q
get_recommendations(e, tie, bottles, q, seed_bottle_id, k) ==
    LET Req(call, out, reads, status, mode, results) ==
            Handled("/recommendations", q, seed_bottle_id, k, call, out, reads,
                    status, mode, results)
    IN IF (~q.isStr /\ ~seed_bottle_id.given) \/ (q.isStr /\ seed_bottle_id.given)
       THEN Req(NoCall, Return(<<>>, 0), {}, 400, "-", <<>>)
       ELSE LET mode == IF QueryMode(q) THEN "query" ELSE "seed"
                bottle_id == IF seed_bottle_id.given THEN seed_bottle_id.val ELSE NoId
                call == IF mode = "query" THEN QueryCall(q, k) ELSE SeedCall(bottle_id, k)
                out == IF mode = "query" THEN recommend_by_query(e, tie, q, k)
                       ELSE recommend_by_bottle_id(e, tie, bottle_id, k)
            IN IF out.kind = "raise" THEN Req(call, out, {}, 500, mode, <<>>)
               ELSE IF out.list = <<>> THEN Req(call, out, {}, 200, mode, <<>>)
               ELSE LET rows == RankedRows(BottlesById(bottles, out.list), out.list)
                    IN Req(call, out, {"bottles"}, 200, mode,
                           Tab([i \in 1..Len(rows) |-> bottles_normalize_bottle(rows[i])]))

\* the fixed batch size of the swipe queue: k=50
SwipeBatch == 50

\* get_swipe_candidates(request, seed_bottle_id)
get_swipe_candidates(e, tie, bottles, seed_bottle_id) ==
    LET Req(out, reads, status, results) ==
            Handled("/swipe/candidates", NonStr, Given(seed_bottle_id), SwipeBatch,
                    SeedCall(seed_bottle_id, SwipeBatch), out, reads, status, "-", results)
        out == recommend_by_bottle_id(e, tie, seed_bottle_id, SwipeBatch)
    IN IF out.kind = "raise" THEN Req(out, {}, 500, <<>>)
       ELSE IF out.list = <<>> THEN Req(out, {}, 404, <<>>)
       ELSE LET rows == RankedRows(BottlesById(bottles, out.list), out.list)
            IN Req(out, {"bottles"}, 200,
                   Tab([i \in 1..Len(rows) |-> normalize_bottle(rows[i])]))

\* the parameters of the requests
QParams == {NonStr, Str(<<>>), Str(<<"A", "b", "!">>)}
SeedParams == {Absent} \cup {Given(b) : b \in 0..MaxRows \cup {BigRows}}

\* GET /recommendations
GetRecommendations(s) ==
    /\ Serving
    /\ reqs[s].pc = "idle"
    /\ \E q \in QParams, seed_bottle_id \in SeedParams, k \in FewKs :
         reqs' = [reqs EXCEPT ![s] =
                    get_recommendations(engine, sortTie, store.bottles,
                                        q, seed_bottle_id, k)]
    /\ UNCHANGED <<disk, catalog, build, srv, engine, sortTie, store>>

\* GET /swipe/candidates
GetSwipeCandidates(s) ==
    /\ Serving
    /\ reqs[s].pc = "idle"
    /\ \E seed_bottle_id \in 0..MaxRows \cup {BigRows} :
         reqs' = [reqs EXCEPT ![s] =
                    get_swipe_candidates(engine, sortTie, store.bottles, seed_bottle_id)]
    /\ UNCHANGED <<disk, catalog, build, srv, engine, sortTie, store>>

\* the bottles table after an ingest of well-formed lines with these ids
TableOf(ids) ==
    Tab([id \in ids |->
           Bottle([original_index |-> IntText(id), Perfume |-> GoodLine.Perfume,
                   Rating_Value |-> GoodLine.Rating_Value,
                   Rating_Count |-> GoodLine.Rating_Count,
                   Year |-> GoodLine.Year]).val])

BottleTables == {TableOf({}), TableOf({1}), TableOf(BigIds \ {3})}

\* the artifact sets the server is started on: the four files parse, and the
\* matrix has as many rows as the id map has entries
HttpDirs ==
    {d \in GoodDirs : NRows(d.tfidf_matrix.data) = NRows(d.bottle_id_map.data)}

InitHttp ==
    /\ disk \in HttpDirs
    /\ catalog = NoCatalog
    /\ build = NoBuild
    /\ srv = Srv("boot", 0)
    /\ engine = NewEngine
    /\ reqs = [s \in {1} |-> Idle]
    /\ sortTie \in {"index_asc", "index_desc"}
    /\ \E bottles \in BottleTables : store = [EmptyStore EXCEPT !.bottles = bottles]

NextHttp ==
    \/ Boot
    \/ LoadVectorizer
    \/ LoadMatrix
    \/ LoadIdMap
    \/ LoadPopularity
    \/ BuildReverseMap
    \/ Publish
    \/ \E s \in DOMAIN reqs : GetRecommendations(s)
    \/ \E s \in DOMAIN reqs : GetSwipeCandidates(s)
    \/ \E s \in DOMAIN reqs : Respond(s)

SpecHttp == InitHttp /\ [][NextHttp]_vars

\* a request of an endpoint that has been handled, and the ids of its cards
HandledAt(s, endpoints) == reqs[s].pc = "done" /\ reqs[s].endpoint \in endpoints
Answered(s) == HandledAt(s, {"/recommendations", "/swipe/candidates"}) /\ reqs[s].status = 200
ResultIds(s) == [i \in 1..Len(reqs[s].results) |-> reqs[s].results[i].bottle_id]
EngineList(s) == reqs[s].out.list

\* a is b with some elements left out
RECURSIVE IsSubsequence(_, _)
IsSubsequence(a, b) ==
    IF a = <<>> THEN TRUE
    ELSE IF b = <<>> THEN FALSE
    ELSE IF Head(a) = Head(b) THEN IsSubsequence(Tail(a), Tail(b))
    ELSE IsSubsequence(a, Tail(b))

Occurrences(list, x) == Cardinality({i \in 1..Len(list) : list[i] = x})

\* C22: the ids of the results of GET /recommendations and GET /swipe/candidates
\* are a subsequence of the list the engine returned; an id is left out exactly
\* when the bottles table has no row for it, and an id the table has occurs as
\* often as in the engine's list
C22_OrderPreserved ==
    \A s \in DOMAIN reqs :
        Answered(s) =>
            /\ IsSubsequence(ResultIds(s), EngineList(s))
            /\ \A b \in Range(EngineList(s)) :
                  Occurrences(ResultIds(s), b) =
                      IF b \in DOMAIN store.bottles
                      THEN Occurrences(EngineList(s), b) ELSE 0

\* a response whose engine list is not in table order, with an id the table
\* lacks between two ids it has
C22_Witness ==
    \E s \in DOMAIN reqs :
        /\ Answered(s)
        /\ \E i, j, l \in 1..Len(EngineList(s)) :
              /\ i < j /\ j < l
              /\ EngineList(s)[i] > EngineList(s)[l]
              /\ EngineList(s)[j] \notin DOMAIN store.bottles
              /\ {EngineList(s)[i], EngineList(s)[l]} \subseteq Range(ResultIds(s))

\* C27: GET /recommendations with both q and seed_bottle_id, or with neither,
\* is answered 400 without a call of the engine; with q alone (any string, the
\* empty one included) it calls recommend_by_query(q, k) and reports mode
\* "query"; with seed_bottle_id alone it calls recommend_by_bottle_id and
\* reports mode "seed"
C27_ModeDispatch ==
    \A s \in DOMAIN reqs :
        HandledAt(s, {"/recommendations"}) =>
            LET r == reqs[s]
            IN IF r.q.isStr = r.seed_bottle_id.given
               THEN r.status = 400 /\ r.call = NoCall
               ELSE IF r.q.isStr
               THEN /\ r.call = QueryCall(r.q, r.k)
                    /\ r.status = 200 => r.mode = "query"
               ELSE /\ r.call = SeedCall(r.seed_bottle_id.val, r.k)
                    /\ r.status = 200 => r.mode = "seed"

-----------------------------------------------------------------------------
(* Protected endpoints: deps/auth.py, routers/collections.py,
   routers/swipes.py and /health-auth of routers/health.py *)

\* an Authorization header is a sequence of words and blanks; a token is one
\* word, and jwt.decode knows what each token is
Users == {"u", "v"}
NoSub == "-"

JWTError == [raised |-> TRUE, sub |-> NoSub]
Payload(sub) == [raised |-> FALSE, sub |-> sub]

\* jwt.decode(token, jwks, options={"verify_aud": False}): the payload of a
\* token that verifies; JWTError for a forged, expired or malformed one
JwtDecode(token) ==
    CASE token = <<"jwt_u">> -> Payload("u")
      [] token = <<"jwt_v">> -> Payload("v")
      [] token = <<"jwt_nosub">> -> Payload(NoSub)
      [] OTHER -> JWTError

LowerWord(w) == IF w \in {"Bearer", "BEARER"} THEN "bearer" ELSE w

\* request.headers.get("Authorization") of a request without the header
NoHeader == [given |-> FALSE, val |-> <<>>]

\* what the dependency gives: the user context, or the error response
AuthOk(user_id) == [status |-> 200, user_id |-> user_id]
AuthError(status) == [status |-> status, user_id |-> NoSub]

\* get_current_user(request); jwks tells whether requests.get(jwks_url)
\* answers: when it raises, nothing catches the exception
get_current_user(auth_header, jwks) ==
    IF ~auth_header.given \/ auth_header.val = <<>> THEN AuthError(401)
    ELSE LET parts == Split(auth_header.val, " ", <<>>)
         IN IF Len(parts) # 2
               \/ [i \in 1..Len(parts[1]) |-> LowerWord(parts[1][i])] # <<"bearer">>
            THEN AuthError(401)
            ELSE IF jwks = "unreachable" THEN AuthError(500)
            ELSE LET payload == JwtDecode(parts[2])
                 IN IF payload.raised THEN AuthError(401)
                    ELSE IF payload.sub = NoSub THEN AuthError(401)
                    ELSE AuthOk(payload.sub)

VALID_TYPES == {"wishlist", "favorites", "personal"}

CollectionRow(user_id, bottle_id, collection_type) ==
    [user_id |-> user_id, bottle_id |-> bottle_id, collection_type |-> collection_type]

\* (mutant: a plain insert, without the conflict target)
UpsertCollection_insert(collections, row) == Append(collections, row)

\* supabase.table("collections").upsert(row,
\*     on_conflict="user_id,bottle_id,collection_type"): the table is kept in
\* the order of created_at, which a conflict leaves as it is
UpsertCollection(collections, row) ==
    IF row \in Range(collections) THEN collections ELSE Append(collections, row)

\* (mutant: the delete is not filtered by collection_type)
DeleteCollection_any_type(collections, user_id, bottle_id, type) ==
    SelectSeq(collections, LAMBDA r : ~(r.user_id = user_id /\ r.bottle_id = bottle_id))

\* .delete().eq("user_id", ...).eq("bottle_id", ...).eq("collection_type", ...)
DeleteCollection(collections, user_id, bottle_id, type) ==
    SelectSeq(collections,
              LAMBDA r : r # CollectionRow(user_id, bottle_id, type))

\* (mutant: the select is not filtered by user_id)
ExistingTypes_any_user(collections, user_id, bottle_id) ==
    {r.collection_type : r \in {x \in Range(collections) : x.bottle_id = bottle_id}}

\* .select("collection_type").eq("user_id", ...).eq("bottle_id", ...), then
\* existing_types
ExistingTypes(collections, user_id, bottle_id) ==
    {r.collection_type :
        r \in {x \in Range(collections) : x.user_id = user_id /\ x.bottle_id = bottle_id}}

\* .select("bottle_id, created_at").eq("user_id", ...).eq("collection_type", ...)
\* .order("created_at", desc=True), then bottle_ids
CollectionBottleIds(collections, user_id, type) ==
    LET mine == SelectSeq(collections,
                          LAMBDA r : r.user_id = user_id /\ r.collection_type = type)
    IN Reverse([i \in 1..Len(mine) |-> mine[i].bottle_id])

\* what a route handler gives: its response and the store it leaves
Outcome(status, touched, ok, types, results, st) ==
    [status |-> status, touched |-> touched, ok |-> ok, types |-> types,
     results |-> results, store |-> st]

\* get_collection_status(bottle_id, current_user)
get_collection_status(st, user_id, bottle_id) ==
    Outcome(200, {"collections"}, FALSE,
            ExistingTypes(st.collections, user_id, bottle_id) \cap VALID_TYPES, <<>>, st)

\* add_to_collection(body, current_user)
add_to_collection(st, user_id, bottle_id, collection_type) ==
    IF collection_type \notin VALID_TYPES THEN Outcome(400, {}, FALSE, {}, <<>>, st)
    ELSE Outcome(200, {"collections"}, TRUE, {}, <<>>,
                 [st EXCEPT !.collections =
                     UpsertCollection(@, CollectionRow(user_id, bottle_id,
                                                       collection_type))])

\* get_collection(type, current_user)
get_collection(st, user_id, type) ==
    IF type \notin VALID_TYPES THEN Outcome(400, {}, FALSE, {}, <<>>, st)
    ELSE LET bottle_ids == CollectionBottleIds(st.collections, user_id, type)
             rows == RankedRows(BottlesById(st.bottles, bottle_ids), bottle_ids)
         IN IF bottle_ids = <<>>
            THEN Outcome(200, {"collections"}, FALSE, {}, <<>>, st)
            ELSE Outcome(200, {"collections", "bottles"}, FALSE, {},
                         Tab([i \in 1..Len(rows) |-> normalize_bottle(rows[i])]), st)

\* remove_from_collection(bottle_id, type, current_user)
remove_from_collection(st, user_id, bottle_id, type) ==
    IF type \notin VALID_TYPES THEN Outcome(400, {}, FALSE, {}, <<>>, st)
    ELSE Outcome(200, {"collections"}, TRUE, {}, <<>>,
                 [st EXCEPT !.collections =
                     DeleteCollection(@, user_id, bottle_id, type)])

\* create_swipe(swipe, current_user)
create_swipe(st, user_id, bottle_id, action) ==
    IF action \notin {"like", "pass"} THEN Outcome(400, {}, FALSE, {}, <<>>, st)
    ELSE Outcome(200, {"swipes"}, TRUE, {}, <<>>,
                 [st EXCEPT !.swipes =
                     Append(@, [user_id |-> user_id, bottle_id |-> bottle_id,
                                action |-> action])])

\* health_check_auth(user): returns the user context
health_check_auth(st, user_id) == Outcome(200, {}, TRUE, {}, <<>>, st)

\* a request to a protected endpoint
Call(endpoint, auth_header, jwks, bottle_id, type) ==
    [endpoint |-> endpoint, auth_header |-> auth_header, jwks |-> jwks,
     bottle_id |-> bottle_id, type |-> type]

\* Depends(get_current_user) raised: the response is the dependency's error
\* and the route handler is not called
Rejected(s, call, auth) ==
    /\ reqs' = [reqs EXCEPT ![s] =
          [pc |-> "done", call |-> call, user_id |-> NoSub, ran |-> FALSE,
           outcome |-> Outcome(auth.status, {}, FALSE, {}, <<>>, store)]]
    /\ store' = store

\* the route handler ran for the authenticated user
Ran(s, call, auth, outcome) ==
    /\ reqs' = [reqs EXCEPT ![s] =
          [pc |-> "done", call |-> call, user_id |-> auth.user_id, ran |-> TRUE,
           outcome |-> outcome]]
    /\ store' = outcome.store

\* the size of the tables of the model
MaxCollected == 2
MaxSwipes == 1

\* the parameters of the requests
AuthHeaders ==
    {NoHeader, Given(<<>>),
     Given(<<"Bearer", " ", "jwt_u">>), Given(<<"bearer", " ", "jwt_v">>),
     Given(<<"Bearer", " ", "jwt_nosub">>), Given(<<"Bearer", " ", "jwt_forged">>),
     Given(<<"Bearer", " ">>), Given(<<"Bearer">>), Given(<<"jwt_u">>),
     Given(<<"Basic", " ", "jwt_u">>), Given(<<"Bearer", " ", " ", "jwt_u">>)}
\* the JWKS endpoint answers, or (for three of the headers) does not
AuthInputs ==
    {<<h, "reachable">> : h \in AuthHeaders}
    \cup {<<h, "unreachable">> :
            h \in {NoHeader, Given(<<"Bearer", " ", "jwt_u">>),
                   Given(<<"Bearer", " ", "jwt_forged">>)}}
CollectBottles == {1, 2}
TypeParams == {"wishlist", "personal", "bogus"}
ActionParams == {"like", "bogus"}

\* GET /collections/status
GetCollectionStatus(s) ==
    /\ Serving
    /\ reqs[s].pc = "idle"
    /\ \E a \in AuthInputs, bottle_id \in CollectBottles :
         LET auth == get_current_user(a[1], a[2])
             call == Call("GET /collections/status", a[1], a[2], bottle_id, "-")
         IN IF auth.status # 200 THEN Rejected(s, call, auth)
            ELSE Ran(s, call, auth, get_collection_status(store, auth.user_id, bottle_id))
    /\ UNCHANGED <<disk, catalog, build, srv, engine, sortTie>>

\* POST /collections
AddToCollection(s) ==
    /\ Serving
    /\ reqs[s].pc = "idle"
    /\ \E a \in AuthInputs, bottle_id \in CollectBottles, type \in TypeParams :
         LET auth == get_current_user(a[1], a[2])
             call == Call("POST /collections", a[1], a[2], bottle_id, type)
             outcome == add_to_collection(store, auth.user_id, bottle_id, type)
         IN IF auth.status # 200 THEN Rejected(s, call, auth)
            ELSE /\ Len(outcome.store.collections) <= MaxCollected
                 /\ Ran(s, call, auth, outcome)
    /\ UNCHANGED <<disk, catalog, build, srv, engine, sortTie>>

\* GET /collections
GetCollection(s) ==
    /\ Serving
    /\ reqs[s].pc = "idle"
    /\ \E a \in AuthInputs, type \in TypeParams :
         LET auth == get_current_user(a[1], a[2])
             call == Call("GET /collections", a[1], a[2], 0, type)
         IN IF auth.status # 200 THEN Rejected(s, call, auth)
            ELSE Ran(s, call, auth, get_collection(store, auth.user_id, type))
    /\ UNCHANGED <<disk, catalog, build, srv, engine, sortTie>>

\* DELETE /collections/{bottle_id}
RemoveFromCollection(s) ==
    /\ Serving
    /\ reqs[s].pc = "idle"
    /\ \E a \in AuthInputs, bottle_id \in CollectBottles, type \in TypeParams :
         LET auth == get_current_user(a[1], a[2])
             call == Call("DELETE /collections", a[1], a[2], bottle_id, type)
         IN IF auth.status # 200 THEN Rejected(s, call, auth)
            ELSE Ran(s, call, auth,
                     remove_from_collection(store, auth.user_id, bottle_id, type))
    /\ UNCHANGED <<disk, catalog, build, srv, engine, sortTie>>

\* POST /swipes
CreateSwipe(s) ==
    /\ Serving
    /\ reqs[s].pc = "idle"
    /\ \E a \in AuthInputs, action \in ActionParams :
         LET auth == get_current_user(a[1], a[2])
             call == Call("POST /swipes", a[1], a[2], 1, action)
             outcome == create_swipe(store, auth.user_id, 1, action)
         IN IF auth.status # 200 THEN Rejected(s, call, auth)
            ELSE /\ Len(outcome.store.swipes) <= MaxSwipes
                 /\ Ran(s, call, auth, outcome)
    /\ UNCHANGED <<disk, catalog, build, srv, engine, sortTie>>

\* GET /health-auth
HealthAuth(s) ==
    /\ Serving
    /\ reqs[s].pc = "idle"
    /\ \E a \in AuthInputs :
         LET auth == get_current_user(a[1], a[2])
             call == Call("GET /health-auth", a[1], a[2], 0, "-")
         IN IF auth.status # 200 THEN Rejected(s, call, auth)
            ELSE Ran(s, call, auth, health_check_auth(store, auth.user_id))
    /\ UNCHANGED <<disk, catalog, build, srv, engine, sortTie>>

\* the server is started on the artifacts of a one-row corpus; the bottles
\* table has bottle 1 and lacks bottle 2
AccountDir ==
    ArtifactDir(OkFile(0, Vocab), OkFile(0, [i \in ZeroBased(1) |-> ZeroRow]),
                OkFile(0, [i \in ZeroBased(1) |-> 1]), OkFile(0, EmptyMap))

InitAccount ==
    /\ disk = AccountDir
    /\ catalog = NoCatalog
    /\ build = NoBuild
    /\ srv = Srv("boot", 0)
    /\ engine = NewEngine
    /\ reqs = [s \in {1} |-> Idle]
    /\ sortTie = "index_asc"
    /\ store = [EmptyStore EXCEPT !.bottles = TableOf({1})]

NextAccount ==
    \/ Boot
    \/ LoadVectorizer
    \/ LoadMatrix
    \/ LoadIdMap
    \/ LoadPopularity
    \/ BuildReverseMap
    \/ Publish
    \/ \E s \in DOMAIN reqs : GetCollectionStatus(s)
    \/ \E s \in DOMAIN reqs : AddToCollection(s)
    \/ \E s \in DOMAIN reqs : GetCollection(s)
    \/ \E s \in DOMAIN reqs : RemoveFromCollection(s)
    \/ \E s \in DOMAIN reqs : CreateSwipe(s)
    \/ \E s \in DOMAIN reqs : HealthAuth(s)
    \/ \E s \in DOMAIN reqs : Respond(s)

SpecAccount == InitAccount /\ [][NextAccount]_vars

\* a request to a protected endpoint that has been answered
Protected(s) == reqs[s].pc = "done" /\ "call" \in DOMAIN reqs[s]
\* ... by its route handler, with success
Succeeded(s, endpoint) ==
    /\ Protected(s)
    /\ reqs[s].call.endpoint = endpoint
    /\ reqs[s].ran
    /\ reqs[s].outcome.status = 200
\* the collection row a request names, for the user it is authenticated as
RowOf(r) == CollectionRow(r.user_id, r.call.bottle_id, r.call.type)
\* the step in which the handler of such a request runs
Handles(s, endpoint) ==
    /\ reqs[s].pc = "idle"
    /\ reqs'[s].pc = "done"
    /\ reqs'[s].call.endpoint = endpoint
    /\ reqs'[s].ran
    /\ reqs'[s].call.type \in VALID_TYPES \cup {"-"}
Without(collections, row) == SelectSeq(collections, LAMBDA r : r # row)

\* C23: after POST /collections (b, t) by user u the collections table holds
\* exactly one row (u, b, t); a POST for a row that is already there returns ok
\* and leaves the table, the order of its rows included, as it was
C23_IdempotentAdd ==
    /\ [](\A s \in DOMAIN reqs :
            Succeeded(s, "POST /collections") =>
                /\ reqs[s].outcome.ok
                /\ Occurrences(store.collections, RowOf(reqs[s])) = 1)
    /\ [][\A s \in DOMAIN reqs :
            Handles(s, "POST /collections") =>
                /\ reqs'[s].outcome.status = 200 /\ reqs'[s].outcome.ok
                /\ RowOf(reqs'[s]) \in Range(store.collections) => store' = store]_vars

\* a POST for a row that was added before another row: the row is still first
C23_Witness ==
    \E s \in DOMAIN reqs :
        /\ Succeeded(s, "POST /collections")
        /\ Len(store.collections) = 2
        /\ store.collections[1] = RowOf(reqs[s])

\* C24: DELETE /collections/{b}?type=t by user u returns ok whether or not the
\* row (u, b, t) is there; afterwards the status of (u, b) reports t as false,
\* the rows other than (u, b, t) are as they were, and a DELETE for a row that
\* is not there changes nothing
C24_IdempotentRemove ==
    /\ [](\A s \in DOMAIN reqs :
            Succeeded(s, "DELETE /collections") =>
                /\ reqs[s].outcome.ok
                /\ reqs[s].call.type \notin
                       get_collection_status(store, reqs[s].user_id,
                                             reqs[s].call.bottle_id).types)
    /\ [][\A s \in DOMAIN reqs :
            Handles(s, "DELETE /collections") =>
                /\ reqs'[s].outcome.status = 200 /\ reqs'[s].outcome.ok
                /\ Without(store'.collections, RowOf(reqs'[s]))
                       = Without(store.collections, RowOf(reqs'[s]))
                /\ store'.bottles = store.bottles /\ store'.swipes = store.swipes
                /\ RowOf(reqs'[s]) \notin Range(store.collections) => store' = store]_vars

\* a DELETE that left a row of the same user and bottle, of another type
C24_Witness ==
    \E s \in DOMAIN reqs :
        /\ Succeeded(s, "DELETE /collections")
        /\ \E r \in Range(store.collections) :
              /\ r.user_id = reqs[s].user_id
              /\ r.bottle_id = reqs[s].call.bottle_id
              /\ r.collection_type # reqs[s].call.type

\* the credentials the contract accepts: the header is "Bearer <token>" (the
\* scheme in any case) and the token verifies and carries a "sub"
ContractAuthenticated(auth_header) ==
    /\ auth_header.given
    /\ Len(auth_header.val) = 3
    /\ LowerWord(auth_header.val[1]) = "bearer"
    /\ auth_header.val[2] = " "
    /\ auth_header.val[3] \in {"jwt_u", "jwt_v"}

\* C25: a request to a protected endpoint whose Authorization header is
\* missing, is not "Bearer <token>", or whose token fails verification or has
\* no "sub" is answered 401; its route handler does not run and it reads and
\* writes no table
C25_AuthenticationGate ==
    \A s \in DOMAIN reqs :
        (Protected(s) /\ ~ContractAuthenticated(reqs[s].call.auth_header)) =>
            /\ reqs[s].outcome.status = 401
            /\ ~reqs[s].ran
            /\ reqs[s].outcome.touched = {}

\* the collection rows of a user, and the store with no other collection rows
RowsOf(collections, user_id) == SelectSeq(collections, LAMBDA r : r.user_id = user_id)
RowsOfOthers(collections, user_id) ==
    SelectSeq(collections, LAMBDA r : r.user_id # user_id)
OnlyRowsOf(st, user_id) == [st EXCEPT !.collections = RowsOf(@, user_id)]

\* C30: a collections request authenticated as u leaves the collection rows
\* of every other user as they were, and the status and list responses given
\* to u are those of a store that holds the collection rows of u alone
C30_UserIsolation ==
    /\ [](\A s \in DOMAIN reqs :
            /\ Succeeded(s, "GET /collections/status") =>
                  reqs[s].outcome.types =
                      get_collection_status(OnlyRowsOf(store, reqs[s].user_id),
                                            reqs[s].user_id,
                                            reqs[s].call.bottle_id).types
            /\ Succeeded(s, "GET /collections") =>
                  reqs[s].outcome.results =
                      get_collection(OnlyRowsOf(store, reqs[s].user_id),
                                     reqs[s].user_id, reqs[s].call.type).results)
    /\ [][\A s \in DOMAIN reqs :
            (/\ reqs[s].pc = "idle"
             /\ reqs'[s].pc = "done"
             /\ reqs'[s].ran
             /\ reqs'[s].call.endpoint \in
                    {"GET /collections/status", "POST /collections",
                     "GET /collections", "DELETE /collections"}) =>
                RowsOfOthers(store'.collections, reqs'[s].user_id)
                    = RowsOfOthers(store.collections, reqs'[s].user_id)]_vars

\* u asks for the status of a bottle that only v has collected
C30_Witness ==
    \E s \in DOMAIN reqs :
        /\ Succeeded(s, "GET /collections/status")
        /\ reqs[s].outcome.types = {}
        /\ \E r \in Range(store.collections) :
              r.user_id # reqs[s].user_id /\ r.bottle_id = reqs[s].call.bottle_id

-----------------------------------------------------------------------------
(* The candidate pools of the engine's two methods, on the small corpora and
   on corpora larger than the pool *)

InitPool ==
    /\ disk \in HttpDirs
    /\ catalog = NoCatalog
    /\ build = NoBuild
    /\ srv = Srv("boot", 0)
    /\ engine = NewEngine
    /\ reqs = [s \in {1} |-> Idle]
    /\ sortTie \in {"index_asc", "index_desc"}
    /\ store = EmptyStore

NextPool ==
    \/ Boot
    \/ LoadVectorizer
    \/ LoadMatrix
    \/ LoadIdMap
    \/ LoadPopularity
    \/ BuildReverseMap
    \/ Publish
    \/ \E s \in DOMAIN reqs : Receive(s)
    \/ \E s \in DOMAIN reqs : StepLookup(s)
    \/ \E s \in DOMAIN reqs : StepVectorize(s)
    \/ \E s \in DOMAIN reqs : StepSimilarity(s)
    \/ \E s \in DOMAIN reqs : StepCandidates(s)
    \/ \E s \in DOMAIN reqs : StepRerank(s)
    \/ \E s \in DOMAIN reqs : Respond(s)

SpecPool == InitPool /\ [][NextPool]_vars

\* the candidate list of request s is about to be passed to rerank_candidates
AtRerank(s, kind) == reqs[s].pc = "rerank" /\ reqs[s].kind = kind

\* C26: in recommend_by_bottle_id with a known seed, the seed's row is among
\* the PoolSize + 1 rows selected by similarity, and the candidate list passed
\* to rerank_candidates holds at most PoolSize ids
C26_SeedPoolBound ==
    \A s \in DOMAIN reqs :
        AtRerank(s, "seed") =>
            /\ reqs[s].row \in Range(reqs[s].top)
            /\ Len(reqs[s].cands) <= PoolSize

\* the rows a query selected, and how often an id stands for one of them
Selected(s) == Range(reqs[s].top)
SelectedTimes(s, b) ==
    Cardinality({i \in 1..Len(reqs[s].top) : engine.id_map[reqs[s].top[i]] = b})

\* C28: recommend_by_query(text, k) on a loaded engine of N rows returns the
\* ids of min(k, N) rows, none of which has a lower raw cosine similarity than
\* a row left out; the rerank step adds no id and drops none
C28_QueryMembership ==
    \A s \in DOMAIN reqs :
        (Done(s) /\ reqs[s].kind = "query") =>
            /\ reqs[s].out.kind = "return"
            /\ Cardinality(Selected(s)) = Min2(reqs[s].k, NRows(engine.tfidf_matrix))
            /\ \A r \in Selected(s) :
                  \A q \in DOMAIN engine.tfidf_matrix \ Selected(s) :
                      reqs[s].sims[r] >= reqs[s].sims[q]
            /\ \A b \in Range(engine.id_map) \cup Range(reqs[s].out.list) :
                  Occurrences(reqs[s].out.list, b) = SelectedTimes(s, b)

\* C29: the list rerank_candidates returns holds the candidate ids, each as
\* often as the candidate list does; so an id that recommend_by_bottle_id or
\* recommend_by_query returns is a value of the loaded row -> id map, and
\* occurs once when the map is injective
C29_RerankPermutation ==
    \A s \in DOMAIN reqs :
        Returned(s) =>
            /\ reqs[s].k >= Len(reqs[s].cands) =>
                  \A b \in Range(reqs[s].cands) \cup Range(reqs[s].out.list) :
                      Occurrences(reqs[s].out.list, b) = Occurrences(reqs[s].cands, b)
            /\ Range(reqs[s].out.list) \subseteq Range(engine.id_map)
            /\ Injective(engine.id_map) =>
                  \A b \in Range(reqs[s].out.list) : Occurrences(reqs[s].out.list, b) = 1

\* a returned list that holds an id twice, as its candidate list did
C29_Witness ==
    \E s \in DOMAIN reqs :
        /\ Returned(s)
        /\ reqs[s].k >= Len(reqs[s].cands)
        /\ \E b \in Range(reqs[s].cands) : Occurrences(reqs[s].out.list, b) = 2


=============================================================================
